---- MODULE Spec2Model ----
(***************************************************************************)
(* Model of binance-syncer: the coverage reconciler (compute_dates_cover), *)
(* the remote catalog client (list_remote_symbols, list_remote_files), the *)
(* transfer pipeline                                                       *)
(* (download_and_store), the deletion pipeline (batch_delete_s3,           *)
(* delete_files_async) and the orchestrator (sync_symbol, sync) of         *)
(* src/src/binance_syncer/binance_data_sync.py, with the path builder of   *)
(* src/src/binance_syncer/utils.py.                                        *)
(*                                                                         *)
(* Strings are TLA+ strings; the Python string operations the code uses    *)
(* (split, join, replace, endswith, slicing, Path.stem, int(), format) are *)
(* computed character by character.                                        *)
(***************************************************************************)
EXTENDS Integers, Sequences, FiniteSets, TLC

(***************************************************************************)
(* Bounds of the model.                                                    *)
(***************************************************************************)
\* batch_size of sync_symbol (20 in the source), scaled down
BatchSize == 2
\* SYMBOL_CONCURRENCY * 2, the wave size of sync (20 in the source), scaled down
WaveSize == 2
\* SYMBOL_CONCURRENCY, half the wave size of sync (10 in the source)
SYMBOL_CONCURRENCY == WaveSize \div 2
\* max-keys of one listing page (1000 in the source), scaled down
PageSize == 2
\* the requests of one symbol listing that are answered
MaxRequests == 3
\* the capacity of delete_semaphore (Semaphore(20) in the source), scaled down
DeleteSemaphore == 1

\* batch_size of batch_delete_s3, scaled down from 1000: the keys of one
\* bulk-delete request
DeleteBatchSize == 1

(***************************************************************************)
(* Program constants.                                                      *)
(***************************************************************************)
MAX_CONCURRENT_TASKS == 100
max_retries == 3
BASE_URL == "https://s3-ap-northeast-1.amazonaws.com/data.binance.vision"
LOCAL_PREFIX == "/mirror"
REMOTE_PREFIX == "mirror"
KlineTypes == {"klines", "indexPriceKlines", "markPriceKlines", "premiumIndexKlines"}

(***************************************************************************)
(* Python string operations.                                               *)
(***************************************************************************)
Min(a, b) == IF a < b THEN a ELSE b

\* s[i:] with a 0-based start
StrFrom(s, i) == SubSeq(s, i + 1, Len(s))

\* s[:n]
StrTake(s, n) == SubSeq(s, 1, Min(n, Len(s)))

\* s.endswith(suf)
EndsWith(s, suf) ==
    /\ Len(s) >= Len(suf)
    /\ SubSeq(s, Len(s) - Len(suf) + 1, Len(s)) = suf

\* s.startswith(pre)
StartsWith(s, pre) ==
    /\ Len(s) >= Len(pre)
    /\ SubSeq(s, 1, Len(pre)) = pre

\* s.split(sep) for a one-character separator: a sequence of strings
Split(s, sep) ==
    LET P      == {i \in 1..Len(s) : SubSeq(s, i, i) = sep}
        n      == Cardinality(P)
        pos(k) == IF k = 0 THEN 0
                  ELSE IF k = n + 1 THEN Len(s) + 1
                  ELSE CHOOSE p \in P : Cardinality({q \in P : q < p}) = k - 1
    IN  [k \in 1..(n + 1) |-> SubSeq(s, pos(k - 1) + 1, pos(k) - 1)]

\* sep.join(parts)
RECURSIVE Join(_, _)
Join(parts, sep) ==
    IF Len(parts) = 0 THEN ""
    ELSE IF Len(parts) = 1 THEN parts[1]
    ELSE parts[1] \o sep \o Join(Tail(parts), sep)

\* s.replace(old, new): every non-overlapping occurrence, left to right
RECURSIVE Replace(_, _, _)
Replace(s, old, new) ==
    IF Len(s) < Len(old) THEN s
    ELSE IF SubSeq(s, 1, Len(old)) = old
         THEN new \o Replace(StrFrom(s, Len(old)), old, new)
         ELSE SubSeq(s, 1, 1) \o Replace(StrFrom(s, 1), old, new)

\* parts[n:]
RECURSIVE Drop(_, _)
Drop(parts, n) ==
    IF n = 0 \/ Len(parts) = 0 THEN parts ELSE Drop(Tail(parts), n - 1)

\* parts[-1]
Last(parts) == parts[Len(parts)]

\* position of the last "." of s, 0 when there is none
RECURSIVE LastDot(_, _)
LastDot(s, i) ==
    IF i = 0 THEN 0
    ELSE IF SubSeq(s, i, i) = "." THEN i ELSE LastDot(s, i - 1)

\* Path(p).stem: the final path component without its last suffix
Stem(p) ==
    LET name == Last(Split(p, "/"))
        dot  == LastDot(name, Len(name))
    IN  IF dot <= 1 THEN name ELSE SubSeq(name, 1, dot - 1)

\* Path(p).parent as a string
Parent(p) ==
    LET parts == Split(p, "/")
    IN  Join(SubSeq(parts, 1, Len(parts) - 1), "/")

DigitChars == <<"0", "1", "2", "3", "4", "5", "6", "7", "8", "9">>

DigitVal(c) == CHOOSE v \in 0..9 : DigitChars[v + 1] = c

\* int(s) for a string of decimal digits
RECURSIVE StrToInt(_, _)
StrToInt(s, acc) ==
    IF Len(s) = 0 THEN acc
    ELSE StrToInt(StrFrom(s, 1), acc * 10 + DigitVal(SubSeq(s, 1, 1)))

\* str(n) for n >= 0
RECURSIVE IntToStr(_)
IntToStr(n) ==
    IF n < 10 THEN DigitChars[n + 1]
    ELSE IntToStr(n \div 10) \o DigitChars[(n % 10) + 1]

\* f"{n:02d}"
Fmt02d(n) == IF n < 10 THEN "0" \o IntToStr(n) ELSE IntToStr(n)

\* the characters of the keys, in code point order
CodePoints == "-./0123456789:=?ABCDEFGHIJKLMNOPQRSTUVWXYZ_abcdefghijklmnopqrstuvwxyz"

\* ord(c), up to an order-preserving renumbering
Ord(c) == CHOOSE i \in 1..Len(CodePoints) : SubSeq(CodePoints, i, i) = c

\* a < b for two strings
StrLess(a, b) ==
    LET n == Min(Len(a), Len(b))
        D == {i \in 1..n : SubSeq(a, i, i) # SubSeq(b, i, i)}
    IN  IF D = {} THEN Len(a) < Len(b)
        ELSE LET i == CHOOSE j \in D : \A k \in D : j <= k
             IN  Ord(SubSeq(a, i, i)) < Ord(SubSeq(b, i, i))

\* list(sorted(S)) for a set of strings
Sorted(S) ==
    [k \in 1..Cardinality(S) |->
        CHOOSE x \in S : Cardinality({y \in S : StrLess(y, x)}) = k - 1]

\* s.split(sep)[-1]
AfterLast(s, sep) ==
    LET P == {i \in 1..(Len(s) - Len(sep) + 1) : SubSeq(s, i, i + Len(sep) - 1) = sep}
    IN  IF P = {} THEN s
        ELSE LET i == CHOOSE j \in P : \A k \in P : k <= j
             IN  StrFrom(s, i + Len(sep) - 1)

\* s.strip(ch) for one character
Strip(s, ch) ==
    LET K == {i \in 1..Len(s) : SubSeq(s, i, i) # ch}
    IN  IF K = {} THEN ""
        ELSE SubSeq(s, CHOOSE i \in K : \A k \in K : i <= k,
                       CHOOSE j \in K : \A k \in K : k <= j)

(***************************************************************************)
(* BinancePathBuilder (utils.py).  cfg is the builder's configuration:     *)
(* market_type, data_type and interval ("None" when absent).               *)
(***************************************************************************)
build_download_path(c, frequency, symbol, parts) ==
    LET year  == StrToInt(parts[1], 0)
        month == StrToInt(parts[2], 0)
        date_part == IF frequency = "daily"
                     THEN IntToStr(year) \o "-" \o Fmt02d(month) \o "-"
                            \o Fmt02d(StrToInt(parts[3], 0))
                     ELSE IntToStr(year) \o "-" \o Fmt02d(month)
        head == <<BASE_URL, "data", c.market_type, frequency, c.data_type>>
    IN  IF c.data_type \in KlineTypes
        THEN Join(head \o <<symbol, c.interval,
                            symbol \o "-" \o c.interval \o "-" \o date_part \o ".zip">>, "/")
        ELSE Join(head \o <<symbol,
                            symbol \o "-" \o c.data_type \o "-" \o date_part \o ".zip">>, "/")

build_save_path(c, prefix, symbol, filename) ==
    LET base == <<prefix, "data", c.market_type, c.data_type, symbol>>
        mid  == IF c.data_type \in KlineTypes THEN <<c.interval>> ELSE <<>>
        tail == IF filename # "" THEN <<filename>> ELSE <<>>
    IN  Join(base \o mid \o tail, "/")

\* the prefix= query value of build_listing_files_path: the directory the
\* listing protocol enumerates
ListingPrefix(c, frequency, symbol) ==
    LET base == <<"data", c.market_type, frequency, c.data_type, symbol>>
        mid  == IF c.data_type \in KlineTypes THEN <<c.interval>> ELSE <<>>
    IN  Join(base \o mid, "/")

\* the DateToken download_and_store and compute_dates_cover parse from a key
ParseToken(file) ==
    Join(Drop(Split(Replace(Last(Split(file, "/")), ".zip", ""), "-"), 2), "-")

(***************************************************************************)
(* Universe of the model: the symbols, the DateTokens (in listing order)   *)
(* and the builder configurations.                                         *)
(***************************************************************************)
AllMonths == <<"2023-12", "2024-01", "2024-02">>
AllDays == <<"2024-01-05", "2024-01-06", "2024-02-10", "2024-02-11">>
Range(f) == {f[k] : k \in DOMAIN f}
Months == Range(AllMonths)
Days == Range(AllDays)
Configs == {[market_type |-> "spot", data_type |-> "klines", interval |-> "1d"],
            [market_type |-> "spot", data_type |-> "trades", interval |-> "None"]}
Modes == {"s3", "local"}

VARIABLES
    cfg,            \* market_type, data_type, interval of the BinanceDataSync
    storage_mode,   \* "s3" or "local"
    remote,         \* upstream catalog: symbol -> frequency -> keys in listing order
    store,          \* the mirror: the set of object keys / file paths that exist
    symbols,        \* the symbol list handed to sync
    sync_pc,        \* position of sync: "init", "symbols", "wave", "done", "raised"
    wave_i,         \* loop variable i of sync: 0-based start of the current wave
    task,           \* one record per symbol-sync (position in symbols)
    rc,             \* one compute_dates_cover round trip (reconciler specification)
    ls,             \* list_remote_symbols of sync(symbols=None): its locals and requests
    partial,        \* destination paths that hold an incomplete write
    tp,             \* one safe_parse_time call (time-unit specification)
    cli             \* run_sync of the command line: its position and the --dry-run flag

vars == <<cfg, storage_mode, remote, store, symbols, sync_pc, wave_i, task, rc, ls, partial, tp, cli>>

(***************************************************************************)
(* The upstream archive: for every DateToken an archive and its checksum   *)
(* sidecar, named after the archive naming convention.                     *)
(***************************************************************************)
ArchiveName(c, symbol, token) ==
    symbol \o "-" \o (IF c.data_type \in KlineTypes THEN c.interval ELSE c.data_type)
           \o "-" \o token \o ".zip"

RECURSIVE CatalogKeys(_, _, _, _, _)
CatalogKeys(c, frequency, symbol, order, present) ==
    IF Len(order) = 0 THEN <<>>
    ELSE LET key == ListingPrefix(c, frequency, symbol) \o "/"
                      \o ArchiveName(c, symbol, Head(order))
             rest == CatalogKeys(c, frequency, symbol, Tail(order), present)
         IN  IF Head(order) \in present
             THEN <<key, key \o ".CHECKSUM">> \o rest
             ELSE rest

Catalog(c, symbol, rM, rD) ==
    [monthly |-> CatalogKeys(c, "monthly", symbol, AllMonths, rM),
     daily   |-> CatalogKeys(c, "daily", symbol, AllDays, rD)]

\* the destination StorageLocation of a file name under the active backend
SavePath(c, mode, symbol, filename) ==
    build_save_path(c, IF mode = "s3" THEN REMOTE_PREFIX ELSE LOCAL_PREFIX,
                    symbol, filename)

(***************************************************************************)
(* list_local_dates, the key filter of list_remote_files and               *)
(* compute_dates_cover.                                                    *)
(***************************************************************************)
list_local_dates(c, mode, st, symbol) ==
    IF mode = "s3"
    THEN LET prefix == build_save_path(c, REMOTE_PREFIX, symbol, "")
         IN  {Stem(k) : k \in {o \in st : StartsWith(o, prefix)}}
    ELSE LET prefix == build_save_path(c, LOCAL_PREFIX, symbol, "")
         IN  {Stem(f) : f \in {o \in st : Parent(o) = prefix /\ EndsWith(o, ".parquet")}}

\* a listing that keeps every key of a page
IsArchiveKey_every_key(key) == TRUE

\* key.endswith(".zip") and not key.endswith(".zip.CHECKSUM")
IsArchiveKey(key) == EndsWith(key, ".zip") /\ ~EndsWith(key, ".zip.CHECKSUM")

TokensOf(files) == {ParseToken(files[k]) : k \in DOMAIN files}

\* compute_dates_cover returning every remote day as a day to download
compute_dates_cover_all_remote_days(local_dates, remote_months_files, remote_days_files) ==
    LET local_months   == {d \in local_dates : Len(d) = 7}
        local_days     == {d \in local_dates : Len(d) = 10}
        remote_months  == TokensOf(remote_months_files)
        remote_days    == TokensOf(remote_days_files)
        days_to_remove == {d \in local_days : StrTake(d, 7) \in remote_months}
    IN  [M_DL |-> remote_months \ local_months,
         D_DL |-> remote_days,
         D_RM |-> days_to_remove]

\* compute_dates_cover fetching the days a remote month covers as well
compute_dates_cover_covered_days(local_dates, remote_months_files, remote_days_files) ==
    LET local_months   == {d \in local_dates : Len(d) = 7}
        local_days     == {d \in local_dates : Len(d) = 10}
        remote_months  == TokensOf(remote_months_files)
        remote_days    == TokensOf(remote_days_files)
        days_to_remove == {d \in local_days : StrTake(d, 7) \in remote_months}
    IN  [M_DL |-> remote_months \ local_months,
         D_DL |-> remote_days \ local_days,
         D_RM |-> days_to_remove]

\* compute_dates_cover that does not subtract the local days
compute_dates_cover_keep_local(local_dates, remote_months_files, remote_days_files) ==
    LET local_months   == {d \in local_dates : Len(d) = 7}
        local_days     == {d \in local_dates : Len(d) = 10}
        remote_months  == TokensOf(remote_months_files)
        remote_days    == TokensOf(remote_days_files)
        days_to_remove == {d \in local_days : StrTake(d, 7) \in remote_months}
        days_to_have   == {d \in remote_days : StrTake(d, 7) \notin remote_months}
    IN  [M_DL |-> remote_months \ local_months,
         D_DL |-> days_to_have,
         D_RM |-> days_to_remove]

\* compute_dates_cover removing the days a local month covers
compute_dates_cover_local_months(local_dates, remote_months_files, remote_days_files) ==
    LET local_months   == {d \in local_dates : Len(d) = 7}
        local_days     == {d \in local_dates : Len(d) = 10}
        remote_months  == TokensOf(remote_months_files)
        remote_days    == TokensOf(remote_days_files)
        days_to_remove == {d \in local_days : StrTake(d, 7) \in local_months}
        days_to_have   == {d \in remote_days : StrTake(d, 7) \notin remote_months}
    IN  [M_DL |-> remote_months \ local_months,
         D_DL |-> days_to_have \ local_days,
         D_RM |-> days_to_remove]

\* compute_dates_cover that also removes the local days the remote daily
\* listing no longer offers
compute_dates_cover_mirror_withdrawals(local_dates, remote_months_files, remote_days_files) ==
    LET local_months   == {d \in local_dates : Len(d) = 7}
        local_days     == {d \in local_dates : Len(d) = 10}
        remote_months  == TokensOf(remote_months_files)
        remote_days    == TokensOf(remote_days_files)
        days_to_remove == {d \in local_days :
                              StrTake(d, 7) \in remote_months \/ d \notin remote_days}
        days_to_have   == {d \in remote_days : StrTake(d, 7) \notin remote_months}
    IN  [M_DL |-> remote_months \ local_months,
         D_DL |-> days_to_have \ local_days,
         D_RM |-> days_to_remove]

compute_dates_cover(local_dates, remote_months_files, remote_days_files) ==
    LET local_months   == {d \in local_dates : Len(d) = 7}
        local_days     == {d \in local_dates : Len(d) = 10}
        remote_months  == TokensOf(remote_months_files)
        remote_days    == TokensOf(remote_days_files)
        days_to_remove == {d \in local_days : StrTake(d, 7) \in remote_months}
        days_to_have   == {d \in remote_days : StrTake(d, 7) \notin remote_months}
    IN  [M_DL |-> remote_months \ local_months,
         D_DL |-> days_to_have \ local_days,
         D_RM |-> days_to_remove]

\* the to_fetch list of sync_symbol: months first, then days
\* the orders in which a Python set may be iterated
Orders(S) ==
    {q \in [1..Cardinality(S) -> S] : \A a, b \in DOMAIN q : a # b => q[a] # q[b]}

\* a to_fetch list without the daily archives
BuildToFetch_months_only(c, symbol, months, days) ==
    LET urls(frequency, tokens) ==
            [k \in DOMAIN tokens |->
                build_download_path(c, frequency, symbol, Split(tokens[k], "-"))]
    IN  urls("monthly", months)

BuildToFetch(c, symbol, months, days) ==
    LET urls(frequency, tokens) ==
            [k \in DOMAIN tokens |->
                build_download_path(c, frequency, symbol, Split(tokens[k], "-"))]
    IN  urls("monthly", months) \o urls("daily", days)

\* the file name download_and_store derives from an archive URL
StoreFilename(file_key) == ParseToken(file_key) \o ".parquet"

(***************************************************************************)
(* Reconciler specification: compute_dates_cover as a function of the      *)
(* local and the remote coverage, applied, followed by the effects of the  *)
(* fetches and removals on the mirror, and applied again.                  *)
(***************************************************************************)
RcSymbol == "BTCUSDT"

\* the days the reconciler specification draws its coverages from
RcDays == {"2024-01-05", "2024-02-10", "2024-02-11"}

NoDates == [M_DL |-> {}, D_DL |-> {}, D_RM |-> {}]

\* what list_remote_files returns for a listing that completes
CompleteListing(keys) == SelectSeq(keys, IsArchiveKey)

RcDates(st) ==
    compute_dates_cover(list_local_dates(cfg, storage_mode, st, RcSymbol),
                        CompleteListing(remote[RcSymbol].monthly),
                        CompleteListing(remote[RcSymbol].daily))

InitReconcile ==
    /\ cfg \in Configs
    /\ storage_mode \in Modes
    /\ symbols = <<RcSymbol>>
    /\ sync_pc = "init"
    /\ wave_i = 0
    /\ task = <<>>
    /\ ls = [pc |-> "unused"]
    /\ partial = {}
    /\ tp = [pc |-> "unused"]
    /\ cli = [pc |-> "unused"]
    /\ \E lM \in SUBSET Months, lD \in SUBSET RcDays,
          rM \in SUBSET Months, rD \in SUBSET RcDays :
          /\ store = {SavePath(cfg, storage_mode, RcSymbol, t \o ".parquet") : t \in lM \cup lD}
          /\ remote = [s \in {RcSymbol} |-> Catalog(cfg, s, rM, rD)]
          /\ rc = [pc |-> "input", lM |-> lM, lD |-> lD, rM |-> rM, rD |-> rD,
                   res |-> NoDates, res2 |-> NoDates]

RcCompute ==
    /\ rc.pc = "input"
    /\ rc' = [rc EXCEPT !.pc = "computed", !.res = RcDates(store)]
    /\ UNCHANGED <<cfg, storage_mode, remote, store, symbols, sync_pc, wave_i, task, ls, partial, tp, cli>>

\* every removal and every fetch of the result succeeds
RcApply ==
    /\ rc.pc = "computed"
    /\ \E months \in Orders(rc.res.M_DL), days \in Orders(rc.res.D_DL) :
          LET to_fetch == BuildToFetch(cfg, RcSymbol, months, days)
              removed  == {SavePath(cfg, storage_mode, RcSymbol, d \o ".parquet") :
                              d \in rc.res.D_RM}
              fetched  == {SavePath(cfg, storage_mode, RcSymbol, StoreFilename(to_fetch[k])) :
                              k \in DOMAIN to_fetch}
          IN  store' = (store \ removed) \cup fetched
    /\ rc' = [rc EXCEPT !.pc = "applied"]
    /\ UNCHANGED <<cfg, storage_mode, remote, symbols, sync_pc, wave_i, task, ls, partial, tp, cli>>

RcRecompute ==
    /\ rc.pc = "applied"
    /\ rc' = [rc EXCEPT !.pc = "recomputed", !.res2 = RcDates(store)]
    /\ UNCHANGED <<cfg, storage_mode, remote, store, symbols, sync_pc, wave_i, task, ls, partial, tp, cli>>

NextReconcile == RcCompute \/ RcApply \/ RcRecompute

SpecReconcile == InitReconcile /\ [][NextReconcile]_vars

(***************************************************************************)
(* Claims about the reconciler (specification SpecReconcile).              *)
(***************************************************************************)
RcComputed == rc.pc \in {"computed", "applied", "recomputed"}

RcExampleInput ==
    /\ rc.lD = {"2024-01-05", "2024-02-10"}
    /\ rc.lM = {}
    /\ rc.rM = {"2024-01"}
    /\ rc.rD = {"2024-02-10", "2024-02-11"}

\* C1: for any local and remote coverage, compute_dates_cover returns
\* M_DL = remoteMonths - localMonths, D_DL = {d in remoteDays : d[0:7] not in
\* remoteMonths} - localDays and D_RM = {d in localDays : d[0:7] in
\* remoteMonths}; the concrete example of the specification gives
\* M_DL = {2024-01}, D_RM = {2024-01-05}, D_DL = {2024-02-11}.
C1_ReconcileFormula ==
    RcComputed =>
        /\ rc.res.M_DL = rc.rM \ rc.lM
        /\ rc.res.D_DL = {d \in rc.rD : StrTake(d, 7) \notin rc.rM} \ rc.lD
        /\ rc.res.D_RM = {d \in rc.lD : StrTake(d, 7) \in rc.rM}
        /\ RcExampleInput =>
              /\ rc.res.M_DL = {"2024-01"}
              /\ rc.res.D_RM = {"2024-01-05"}
              /\ rc.res.D_DL = {"2024-02-11"}

C1_Witness ==
    /\ rc.pc = "computed"
    /\ RcExampleInput
    /\ rc.res = [M_DL |-> {"2024-01"}, D_DL |-> {"2024-02-11"}, D_RM |-> {"2024-01-05"}]

\* C2: reconciliation is idempotent: once the months and days to fetch have
\* been added to the local coverage and the days to remove taken out of it,
\* a second compute_dates_cover against the same remote coverage returns
\* three empty sets.
C2_Idempotent ==
    rc.pc = "recomputed" => rc.res2 = NoDates

C2_Witness ==
    /\ rc.pc = "recomputed"
    /\ rc.res.M_DL # {}
    /\ rc.res.D_DL # {}
    /\ rc.res.D_RM # {}
    /\ rc.res2 = NoDates

\* C3: superseding invariant: every day to remove lies in a month the remote
\* archive offers, and no day to fetch does.
C3_Superseding ==
    RcComputed =>
        /\ \A d \in rc.res.D_RM : StrTake(d, 7) \in rc.rM
        /\ \A d \in rc.res.D_DL : StrTake(d, 7) \notin rc.rM

C3_Witness ==
    /\ rc.pc = "computed"
    /\ \E d \in rc.res.D_RM : StrTake(d, 7) \in rc.rM
    /\ \E d \in rc.res.D_DL : StrTake(d, 7) \notin rc.rM
    /\ rc.rM # {}

\* C4: the three sets of a reconciliation result are pairwise disjoint.
C4_Disjoint ==
    RcComputed =>
        /\ rc.res.M_DL \cap rc.res.D_DL = {}
        /\ rc.res.M_DL \cap rc.res.D_RM = {}
        /\ rc.res.D_DL \cap rc.res.D_RM = {}

C4_Witness ==
    /\ rc.pc = "computed"
    /\ rc.res.M_DL # {}
    /\ rc.res.D_DL # {}
    /\ rc.res.D_RM # {}
    /\ rc.lD \cap rc.rD # {}

(***************************************************************************)
(* The synchronisation: sync, sync_symbol, list_remote_files, the deletion *)
(* pipeline and download_and_store as one state machine.  Every action is  *)
(* one step of the event loop: the code between two suspension points.     *)
(***************************************************************************)
SyncSymbols == <<"ETHUSDT", "LTCUSDT", "BNBUSDT", "BTCUSDT">>

Cov(lM, lD, rM, rD) == [lM |-> lM, lD |-> lD, rM |-> rM, rD |-> rD]

\* the initial coverages of the mirror and of the upstream archive, per symbol
Coverages ==
    [BTCUSDT |->
        {Cov({}, {"2024-01-05", "2024-01-06", "2024-02-10"},
             {"2023-12", "2024-01"}, {"2024-02-11"})},
     ETHUSDT |->
        {Cov({"2024-01"}, {}, {"2024-01"}, {})},
     LTCUSDT |->
        {Cov({"2024-01"}, {}, {"2024-01"}, {})},
     BNBUSDT |->
        {Cov({"2024-01"}, {}, {"2024-01"}, {})}]

\* the configurations the synchronisation is explored under
SyncConfigs == {c \in Configs : c.data_type = "klines"}

NewItem == [st |-> "new", file_path |-> "", attempt |-> 0, tries |-> 0,
            delays |-> <<>>, res |-> "none", fate |-> "none"]

IdleTask == [pc |-> "idle", local_dates |-> {}, files |-> <<>>, marker |-> "",
             months_files |-> <<>>, list_fail |-> "none", dates |-> NoDates,
             to_fetch |-> <<>>, dels |-> <<>>, deleted |-> {}, bi |-> 0,
             items |-> <<>>, reports |-> <<>>, uptodate |-> FALSE]

Init ==
    /\ cfg \in SyncConfigs
    /\ storage_mode \in Modes
    /\ symbols = SyncSymbols
    /\ sync_pc = "init"
    /\ wave_i = 0
    /\ task = [i \in DOMAIN SyncSymbols |-> IdleTask]
    /\ rc = [pc |-> "unused"]
    /\ ls = [pc |-> "unused"]
    /\ partial = {}
    /\ tp = [pc |-> "unused"]
    /\ cli = [pc |-> "unused"]
    /\ \E cov \in [Range(SyncSymbols) -> UNION Range(Coverages)] :
          /\ \A s \in Range(SyncSymbols) : cov[s] \in Coverages[s]
          /\ store = UNION {{SavePath(cfg, storage_mode, s, t \o ".parquet") :
                                t \in cov[s].lM \cup cov[s].lD} : s \in Range(SyncSymbols)}
          /\ remote = [s \in Range(SyncSymbols) |-> Catalog(cfg, s, cov[s].rM, cov[s].rD)]

Tasks == DOMAIN task

\* a slice one symbol longer than the step of the loop
WaveOf_overlapping(i) == {k \in DOMAIN symbols : i < k /\ k <= i + WaveSize + 1}

\* symbols[i:i + SYMBOL_CONCURRENCY * 2] as positions of symbols
WaveOf(i) == {k \in DOMAIN symbols : i < k /\ k <= i + WaveSize}

Terminal == {"done", "returned", "raised", "cancelled"}

\* sync_symbol up to its first suspension: list_local_dates and the first
\* request of the monthly listing
StartedTask(symbol) ==
    [IdleTask EXCEPT !.pc = "listM",
                     !.local_dates = list_local_dates(cfg, storage_mode, store, symbol)]

SyncCall ==
    /\ sync_pc = "init"
    /\ wave_i' = 0
    /\ IF Len(symbols) = 0
       THEN sync_pc' = "done" /\ task' = task
       ELSE sync_pc' = "wave" /\ task' = [k \in Tasks |-> IF k \in WaveOf(0) THEN StartedTask(symbols[k]) ELSE task[k]]
    /\ UNCHANGED <<cfg, storage_mode, remote, store, symbols, rc, ls, partial, tp, cli>>

\* the gather of a wave returns once every symbol-sync of it has returned;
\* the locals of the returned symbol-syncs are gone
JoinWave ==
    /\ sync_pc = "wave"
    /\ \A k \in WaveOf(wave_i) : task[k].pc = "done"
    /\ wave_i' = wave_i + WaveSize
    /\ LET returned == [k \in Tasks |->
                          IF k \in WaveOf(wave_i)
                          THEN [IdleTask EXCEPT !.pc = "returned"]
                          ELSE task[k]]
       IN  IF wave_i' < Len(symbols)
           THEN /\ sync_pc' = "wave"
                /\ task' = [k \in Tasks |->
                              IF k \in WaveOf(wave_i') THEN StartedTask(symbols[k])
                              ELSE returned[k]]
           ELSE /\ sync_pc' = "done"
                /\ task' = returned
    /\ UNCHANGED <<cfg, storage_mode, remote, store, symbols, rc, ls, partial, tp, cli>>

\* the gather of a wave has no return_exceptions: the first exception of a
\* symbol-sync is raised out of sync; run_sync answers it with sys.exit(1)
\* and asyncio.run cancels every task that is still pending
SyncRaise ==
    /\ sync_pc = "wave"
    /\ \E k \in WaveOf(wave_i) : task[k].pc = "raised"
    /\ sync_pc' = "raised"
    /\ task' = [k \in Tasks |->
                  IF task[k].pc \in Terminal \cup {"idle"} THEN task[k]
                  ELSE [task[k] EXCEPT !.pc = "cancelled"]]
    /\ UNCHANGED <<cfg, storage_mode, remote, store, symbols, wave_i, rc, ls, partial, tp, cli>>

(***************************************************************************)
(* list_remote_files: one request per step.                                *)
(***************************************************************************)
\* the listing protocol: the keys after the marker, at most max-keys of
\* them, and whether more remain
ServerPage(keys, marker) ==
    LET start == IF marker = "" THEN 0
                 ELSE CHOOSE k \in DOMAIN keys : keys[k] = marker
    IN  [contents  |-> SubSeq(keys, start + 1, Min(start + PageSize, Len(keys))),
         truncated |-> start + PageSize < Len(keys)]

\* the first batch of download_and_store tasks, or the next one
Dispatch(t, i) ==
    [t EXCEPT !.pc = "fetch",
              !.bi = i,
              !.items = [k \in DOMAIN t.items |->
                            IF i < k /\ k <= i + BatchSize
                            THEN [t.items[k] EXCEPT !.st = "pending"]
                            ELSE t.items[k]]]

\* sync_symbol from "Télécharger les nouveaux fichiers" on
EnterFetch(t) ==
    IF t.to_fetch # <<>> THEN Dispatch(t, 0) ELSE [t EXCEPT !.pc = "done"]

\* sync_symbol without the early return of an empty reconciliation
Reconciled_no_early_return(t, symbol, dates) ==
    {LET to_fetch == BuildToFetch(cfg, symbol, months, days)
         t2 == [t EXCEPT !.dates = dates,
                         !.to_fetch = to_fetch,
                         !.items = [k \in DOMAIN to_fetch |-> NewItem],
                         !.dels = [d \in dates.D_RM |-> "pending"]]
     IN  IF dates.D_RM # {}
         THEN [t2 EXCEPT !.pc = "delete"]
         ELSE EnterFetch(t2)
     : months \in Orders(dates.M_DL), days \in Orders(dates.D_DL)}

\* sync_symbol after compute_dates_cover returned: the tasks it may become
Reconciled(t, symbol, dates) ==
    IF dates.M_DL = {} /\ dates.D_DL = {} /\ dates.D_RM = {}
    THEN {[t EXCEPT !.pc = "done", !.dates = dates, !.uptodate = TRUE]}
    ELSE {LET to_fetch == BuildToFetch(cfg, symbol, months, days)
              t2 == [t EXCEPT !.dates = dates,
                              !.to_fetch = to_fetch,
                              !.items = [k \in DOMAIN to_fetch |-> NewItem],
                              !.dels = [d \in dates.D_RM |-> "pending"]]
          IN  IF dates.D_RM # {}
              THEN [t2 EXCEPT !.pc = "delete"]
              ELSE EnterFetch(t2)
          : months \in Orders(dates.M_DL), days \in Orders(dates.D_DL)}

\* list_remote_files returned files to compute_dates_cover
Listed(t, symbol, files) ==
    IF t.pc = "listM"
    THEN {[t EXCEPT !.pc = "listD", !.months_files = files,
                    !.files = <<>>, !.marker = ""]}
    ELSE Reconciled([t EXCEPT !.files = <<>>, !.marker = ""], symbol,
                    compute_dates_cover(t.local_dates, t.months_files, files))

\* the answer to one listing request
ListStep(t, symbol, outcome) ==
    LET frequency == IF t.pc = "listM" THEN "monthly" ELSE "daily"
        page  == ServerPage(remote[symbol][frequency], t.marker)
        files == t.files \o SelectSeq(page.contents, IsArchiveKey)
    IN  CASE outcome = "transport" ->
                {[t EXCEPT !.pc = "raised", !.list_fail = "transport"]}
          [] outcome = "status" ->
                Listed([t EXCEPT !.list_fail = "status"], symbol, t.files)
          [] outcome = "ok" ->
                IF page.contents = <<>> THEN Listed(t, symbol, t.files)
                ELSE IF page.truncated
                     THEN {[t EXCEPT !.files = files, !.marker = Last(page.contents)]}
                     ELSE Listed(t, symbol, files)

ListResponse(i) ==
    /\ task[i].pc \in {"listM", "listD"}
    /\ \E outcome \in {"ok", "status", "transport"} :
          \E t2 \in ListStep(task[i], symbols[i], outcome) :
              task' = [task EXCEPT ![i] = t2]
    /\ UNCHANGED <<cfg, storage_mode, remote, store, symbols, sync_pc, wave_i, rc, ls, partial, tp, cli>>

(***************************************************************************)
(* The deletion pipeline.                                                  *)
(***************************************************************************)
DeleteFinal == {"done", "failed", "absent", "error", "raised"}

DeletePath(symbol, date) == SavePath(cfg, storage_mode, symbol, date \o ".parquet")

\* what the deletion code writes to the log for an outcome: a line that
\* names the item (logger.info "Deleted <path>", logger.error "Error deleting
\* <key>"), a line for the whole request ("Batch delete failed for
\* <symbol>"), or nothing (the exception of unlink ends up in the discarded
\* result list of gather; a missing file fails the exists() test silently)
DeleteRecord(outcome) ==
    CASE outcome = "done"   -> IF storage_mode = "s3" THEN "request" ELSE "item"
      [] outcome = "error"  -> "item"
      [] outcome = "raised" -> "request"
      [] OTHER              -> "none"

\* range(0, len(delete_objects), batch_size), 0-based
BulkStarts(n) == {j \in 0..(n - 1) : j % DeleteBatchSize = 0}

\* delete_objects[i:i + batch_size]
BulkBatch(objs, j) == SubSeq(objs, j + 1, Min(j + DeleteBatchSize, Len(objs)))

\* a loop that ends with the first request that raises
BulkResponses_stop_on_raise(objs) ==
    {f \in [Range(objs) -> {"done", "error", "raised", "pending"}] :
        /\ \A j \in BulkStarts(Len(objs)) :
              LET keys == Range(BulkBatch(objs, j))
              IN  \/ \A d \in keys : f[d] = "raised"
                  \/ \A d \in keys : f[d] \in {"done", "error"}
                  \/ \A d \in keys : f[d] = "pending"
        /\ \A n \in BulkStarts(Len(objs)) :
              (\A d \in Range(BulkBatch(objs, n)) : f[d] = "pending")
                 <=> (\E j \in BulkStarts(Len(objs)) :
                         j < n /\ \A d \in Range(BulkBatch(objs, j)) : f[d] = "raised")}

\* the outcomes of the requests of batch_delete_s3, per key: a request that
\* raises is logged for the symbol and the loop goes on ("raised" for each
\* of its keys); a request that is answered lists every key under Deleted
\* ("done") or under Errors, logged with its key ("error")
BulkResponses(objs) ==
    {f \in [Range(objs) -> {"done", "error", "raised"}] :
        \A j \in BulkStarts(Len(objs)) :
            LET keys == Range(BulkBatch(objs, j))
            IN  \/ \A d \in keys : f[d] = "raised"
                \/ \A d \in keys : f[d] \in {"done", "error"}}

\* batch_delete_s3, which has no await: the requests of every slice of
\* list(dates_dict['D_RM']) are sent within one step
BatchDeleteS3(i) ==
    /\ task[i].pc = "delete"
    /\ storage_mode = "s3"
    /\ \E objs \in Orders(DOMAIN task[i].dels) : \E f \in BulkResponses(objs) :
          LET gone == {DeletePath(symbols[i], d) : d \in {e \in DOMAIN f : f[e] = "done"}}
              t2   == [task[i] EXCEPT !.dels = f, !.deleted = @ \cup gone]
          IN  /\ store' = store \ gone
              /\ task' = [task EXCEPT ![i] = EnterFetch(t2)]
    /\ UNCHANGED <<cfg, storage_mode, remote, symbols, sync_pc, wave_i, rc, ls, partial, tp, cli>>

DeleteHeld(t) == Cardinality({d \in DOMAIN t.dels : t.dels[d] = "unlink"})

\* deletions that do not go through the limiter
DeleteSlotFree_no_limiter(t) == TRUE

\* async with semaphore: a slot of delete_semaphore is free
DeleteSlotFree(t) == DeleteHeld(t) < DeleteSemaphore

\* delete_single_file up to run_in_executor
StartDelete(i, d) ==
    /\ task[i].pc = "delete"
    /\ storage_mode = "local"
    /\ task[i].dels[d] = "pending"
    /\ DeleteSlotFree(task[i])
    /\ task' = [task EXCEPT ![i].dels[d] =
                   IF DeletePath(symbols[i], d) \in store THEN "unlink" ELSE "absent"]
    /\ UNCHANGED <<cfg, storage_mode, remote, store, symbols, sync_pc, wave_i, rc, ls, partial, tp, cli>>

\* local_path.unlink in the executor returns or raises
UnlinkDone(i, d) ==
    /\ task[i].pc \in {"delete", "fetch"}
    /\ task[i].dels[d] = "unlink"
    /\ \E ok \in BOOLEAN :
          IF ok /\ DeletePath(symbols[i], d) \in store
          THEN /\ store' = store \ {DeletePath(symbols[i], d)}
               /\ task' = [task EXCEPT ![i].dels[d] = "done",
                                       ![i].deleted = @ \cup {DeletePath(symbols[i], d)}]
          ELSE /\ store' = store
               /\ task' = [task EXCEPT ![i].dels[d] = "failed"]
    /\ UNCHANGED <<cfg, storage_mode, remote, symbols, sync_pc, wave_i, rc, ls, partial, tp, cli>>

\* the deletions left running in the background instead of being awaited
DeletesJoined_not_awaited(t) == TRUE

\* asyncio.gather(*tasks, return_exceptions=True) of delete_files_async
DeletesJoined(t) == \A d \in DOMAIN t.dels : t.dels[d] \in DeleteFinal

JoinDeletes(i) ==
    /\ task[i].pc = "delete"
    /\ storage_mode = "local"
    /\ DeletesJoined(task[i])
    /\ task' = [task EXCEPT ![i] = EnterFetch(task[i])]
    /\ UNCHANGED <<cfg, storage_mode, remote, store, symbols, sync_pc, wave_i, rc, ls, partial, tp, cli>>

(***************************************************************************)
(* download_and_store: one transfer.                                       *)
(***************************************************************************)
RECURSIVE Pow2(_)
Pow2(n) == IF n = 0 THEN 1 ELSE 2 * Pow2(n - 1)

\* a linear backoff
Backoff_linear(attempt) == attempt + 1

\* asyncio.sleep(2 ** attempt)
Backoff(attempt) == Pow2(attempt)

\* range(max_retries + 1)
Attempts == 0..max_retries

\* if attempt == max_retries: return False
Exhausted(attempt) == attempt = max_retries

FetchSemaphore == MAX_CONCURRENT_TASKS \div 2

\* a limiter whose slot stays taken when download_and_store is left by an
\* exception or by the return of the existence check
FetchHeld_leak(t) ==
    Cardinality({k \in DOMAIN t.items :
                    \/ t.items[k].st \in {"get", "sleep"}
                    \/ t.items[k].st = "done" /\ t.items[k].fate \in {"escaped", "head_error"}})

\* the slots of download_semaphore that are taken: async with semaphore
FetchHeld(t) == Cardinality({k \in DOMAIN t.items : t.items[k].st \in {"get", "sleep"}})

ItemPath(symbol, file_key) ==
    SavePath(cfg, storage_mode, symbol, StoreFilename(file_key))

Finished(item, res, fate) == [item EXCEPT !.st = "done", !.res = res, !.fate = fate]

\* the first request of the retry loop
FirstGet(item) ==
    IF 0 \in Attempts
    THEN [item EXCEPT !.st = "get", !.attempt = 0, !.tries = 1]
    ELSE Finished(item, "False", "exhausted")

\* an existence check whose error is logged and followed by the download
HeadError_download(item) == [FirstGet(item) EXCEPT !.fate = "head_error"]

\* head_object raised a ClientError whose code is not 404: return False
HeadError(item) == Finished(item, "False", "head_error")

\* the semaphore is entered, the destination is probed (object store only)
\* and the first request is sent
StartItem(i, k) ==
    /\ task[i].pc = "fetch"
    /\ task[i].items[k].st = "pending"
    /\ FetchHeld(task[i]) < FetchSemaphore
    /\ LET item == [task[i].items[k] EXCEPT
                        !.file_path = ItemPath(symbols[i], task[i].to_fetch[k])]
       IN  IF storage_mode = "s3"
           THEN \E head \in {"answered", "error", "exception"} :
                   task' = [task EXCEPT ![i].items[k] =
                      CASE head = "error"     -> HeadError(item)
                        [] head = "exception" -> Finished(item, "exception", "escaped")
                        [] head = "answered"  ->
                              IF item.file_path \in store
                              THEN Finished(item, "True", "skipped")
                              ELSE FirstGet(item)]
           ELSE task' = [task EXCEPT ![i].items[k] = FirstGet(item)]
    /\ UNCHANGED <<cfg, storage_mode, remote, store, symbols, sync_pc, wave_i, rc, ls, partial, tp, cli>>

\* what a failed attempt leads to: the final failure or the backoff sleep
AfterFailure(item) ==
    IF Exhausted(item.attempt)
    THEN Finished(item, "False", "exhausted")
    ELSE [item EXCEPT !.st = "sleep", !.delays = Append(@, Backoff(item.attempt))]

\* a retry loop that goes on after a successful attempt
AfterSuccess_continue(item) ==
    IF Exhausted(item.attempt)
    THEN Finished(item, "True", "stored")
    ELSE [item EXCEPT !.st = "sleep", !.fate = "stored",
                      !.delays = Append(@, Backoff(item.attempt))]

\* what a successful attempt leads to
AfterSuccess(item) == Finished(item, "True", "stored")

\* how an attempt can end: the artifact is stored; an exception is raised
\* before anything is written (request, unzip, read_csv, safe_parse_time,
\* upload_fileobj); or, on the filesystem, df.to_parquet(local_path) raises
\* while it writes the destination file itself
WriteOutcomes == IF storage_mode = "local" THEN {"stored", "failed", "torn"}
                                           ELSE {"stored", "failed"}

\* one attempt ends: the archive was downloaded, decoded and stored, or an
\* exception was caught
AttemptDone(i, k) ==
    /\ task[i].pc = "fetch"
    /\ task[i].items[k].st = "get"
    /\ \E out \in WriteOutcomes :
          LET path == task[i].items[k].file_path
          IN  CASE out = "stored" ->
                     /\ store' = store \cup {path}
                     /\ partial' = partial \ {path}
                     /\ task' = [task EXCEPT ![i].items[k] = AfterSuccess(@)]
                [] out = "failed" ->
                     /\ UNCHANGED <<store, partial, tp, cli>>
                     /\ task' = [task EXCEPT ![i].items[k] = AfterFailure(@)]
                [] out = "torn" ->
                     /\ store' = store \cup {path}
                     /\ partial' = partial \cup {path}
                     /\ task' = [task EXCEPT ![i].items[k] = AfterFailure(@)]
    /\ UNCHANGED <<cfg, storage_mode, remote, symbols, sync_pc, wave_i, rc, ls, tp, cli>>

\* the backoff sleep is over: the next iteration of the retry loop
WakeUp(i, k) ==
    /\ task[i].pc = "fetch"
    /\ task[i].items[k].st = "sleep"
    /\ task' = [task EXCEPT ![i].items[k] =
                  IF @.attempt + 1 \in Attempts
                  THEN [@ EXCEPT !.st = "get", !.attempt = @ + 1, !.tries = @ + 1]
                  ELSE Finished(@, "False", "exhausted")]
    /\ UNCHANGED <<cfg, storage_mode, remote, store, symbols, sync_pc, wave_i, rc, ls, partial, tp, cli>>

(***************************************************************************)
(* sync_symbol: the join of one batch.                                     *)
(***************************************************************************)
BatchOf(t) == {k \in DOMAIN t.items : t.bi < k /\ k <= t.bi + BatchSize}

\* a join that returns with the first result of the batch
BatchJoined_first_result(t) == \E k \in BatchOf(t) : t.items[k].st = "done"

\* asyncio.gather(*batch_tasks, return_exceptions=True) has every result
BatchJoined(t) == \A k \in BatchOf(t) : t.items[k].st = "done"

\* a report that counts every truthy result, a collected exception included
BatchReport_truthy(t) ==
    LET success_count == Cardinality({k \in BatchOf(t) : t.items[k].res # "False"})
    IN  [batch |-> BatchOf(t),
         success_count |-> success_count,
         failed_count  |-> Cardinality(BatchOf(t)) - success_count]

\* sum(1 for r in results if r is True) and len(batch_tasks) - success_count
BatchReport(t) ==
    LET success_count == Cardinality({k \in BatchOf(t) : t.items[k].res = "True"})
    IN  [batch |-> BatchOf(t),
         success_count |-> success_count,
         failed_count  |-> Cardinality(BatchOf(t)) - success_count]

\* a returned download_and_store: its result stays in results, its locals
\* are gone
Returned(item) == [NewItem EXCEPT !.st = "returned", !.res = item.res, !.fate = item.fate]

JoinBatch(i) ==
    /\ task[i].pc = "fetch"
    /\ BatchJoined(task[i])
    /\ LET t2 == [task[i] EXCEPT
                      !.reports = Append(@, BatchReport(task[i])),
                      !.items = [k \in DOMAIN @ |->
                                    IF k \in BatchOf(task[i]) THEN Returned(@[k]) ELSE @[k]]]
       IN  task' = [task EXCEPT ![i] =
                      IF t2.bi + BatchSize < Len(t2.to_fetch)
                      THEN Dispatch(t2, t2.bi + BatchSize)
                      ELSE [t2 EXCEPT !.pc = "done"]]
    /\ UNCHANGED <<cfg, storage_mode, remote, store, symbols, sync_pc, wave_i, rc, ls, partial, tp, cli>>

Next ==
    \/ SyncCall
    \/ JoinWave
    \/ SyncRaise
    \/ \E i \in Tasks : ListResponse(i)
    \/ \E i \in Tasks : BatchDeleteS3(i)
    \/ \E i \in Tasks : \E d \in DOMAIN task[i].dels : StartDelete(i, d)
    \/ \E i \in Tasks : \E d \in DOMAIN task[i].dels : UnlinkDone(i, d)
    \/ \E i \in Tasks : JoinDeletes(i)
    \/ \E i \in Tasks : \E k \in DOMAIN task[i].items : StartItem(i, k)
    \/ \E i \in Tasks : \E k \in DOMAIN task[i].items : AttemptDone(i, k)
    \/ \E i \in Tasks : \E k \in DOMAIN task[i].items : WakeUp(i, k)
    \/ \E i \in Tasks : JoinBatch(i)

Spec == Init /\ [][Next]_vars

(***************************************************************************)
(* Claims about the synchronisation (specification Spec).                  *)
(***************************************************************************)
\* what the upstream archive offers for a symbol
RemoteMonths(symbol) == TokensOf(CompleteListing(remote[symbol].monthly))
RemoteDays(symbol) == TokensOf(CompleteListing(remote[symbol].daily))

\* C5: a sync pass removes from the mirror only artifacts of its
\* DaysToRemove: day artifacts of a month the upstream archive offers.  No
\* monthly artifact is removed, and no day artifact of a month without a
\* remote monthly archive, whether or not the remote daily listing still
\* offers that day.
C5_DeletesOnlySuperseded ==
    [][\A p \in store \ store' :
          \E i \in Tasks : \E d \in task[i].dates.D_RM :
              /\ p = DeletePath(symbols[i], d)
              /\ Len(d) = 10
              /\ StrTake(d, 7) \in RemoteMonths(symbols[i])]_vars

C5_Witness ==
    \E i \in Tasks :
        /\ task[i].pc = "done"
        /\ task[i].deleted # {}
        /\ \E d \in task[i].local_dates :
              /\ Len(d) = 10
              /\ d \notin RemoteDays(symbols[i])
              /\ StrTake(d, 7) \notin RemoteMonths(symbols[i])
              /\ DeletePath(symbols[i], d) \in store

\* C6: within one symbol-sync no transfer is dispatched before every
\* deletion of that symbol's DaysToRemove has finished, successfully or
\* not, under both storage backends.
C6_DeletionsBeforeFetches ==
    \A i \in Tasks :
        (\E k \in DOMAIN task[i].items : task[i].items[k].st # "new")
            => \A d \in DOMAIN task[i].dels : task[i].dels[d] \in DeleteFinal

C6_Witness ==
    \E i \in Tasks :
        /\ \E d \in DOMAIN task[i].dels : task[i].dels[d] = "done"
        /\ \E k \in DOMAIN task[i].items : task[i].items[k].st = "get"
        /\ \E k \in DOMAIN task[i].items : task[i].items[k].st = "pending"

Succeeded == {"stored", "skipped"}
Failed == {"exhausted", "head_error", "escaped"}

\* C7: partial-failure isolation: every item of a reported batch has run
\* to its final outcome, the report counts the items that stored or found
\* their artifact as successes and the items that failed permanently as
\* failures, every successful artifact exists at its destination, a
\* permanent failure never makes the symbol-sync raise, and a symbol-sync
\* that returns has dispatched and reported every batch of its fetch list.
C7_PartialFailureIsolation ==
    \A i \in Tasks :
        LET t == task[i] IN
        /\ \A b \in DOMAIN t.reports :
              LET r == t.reports[b] IN
              /\ \A k \in r.batch : t.items[k].st = "returned"
              /\ r.success_count = Cardinality({k \in r.batch : t.items[k].fate \in Succeeded})
              /\ r.failed_count = Cardinality({k \in r.batch : t.items[k].fate \in Failed})
              /\ \A k \in r.batch :
                    t.items[k].fate \in Succeeded
                        => ItemPath(symbols[i], t.to_fetch[k]) \in store
        /\ t.pc = "raised" => t.list_fail = "transport"
        /\ t.pc = "done" =>
              UNION {t.reports[b].batch : b \in DOMAIN t.reports} = DOMAIN t.to_fetch

C7_Witness ==
    \E i \in Tasks : \E b \in DOMAIN task[i].reports :
        LET r == task[i].reports[b] IN
        /\ Cardinality(r.batch) >= 2
        /\ r.failed_count = 1
        /\ r.success_count = Cardinality(r.batch) - 1
        /\ \E k \in r.batch : task[i].items[k].fate = "exhausted"
        /\ b < Len(task[i].reports)
        /\ task[i].pc = "done"

\* C8: retry budget: a transfer whose every attempt fails has made exactly
\* max_retries + 1 = 4 attempts, has waited 1, 2 and 4 time units between
\* them, and is recorded as failed (result False) while its symbol-sync
\* goes on; every backoff recorded so far is 2^i after failed attempt i.
C8_RetryBudget ==
    \A i \in Tasks : \A k \in DOMAIN task[i].items :
        LET it == task[i].items[k] IN
        /\ \A j \in DOMAIN it.delays : it.delays[j] = 2 ^ (j - 1)
        /\ it.st = "done" /\ it.fate = "exhausted" =>
              /\ it.tries = max_retries + 1
              /\ it.tries = 4
              /\ it.delays = <<1, 2, 4>>
              /\ it.res = "False"
              /\ task[i].pc # "raised"

C8_Witness ==
    \E i \in Tasks : \E k \in DOMAIN task[i].items :
        /\ task[i].items[k].st = "done"
        /\ task[i].items[k].fate = "exhausted"
        /\ task[i].items[k].tries = 4
        /\ task[i].items[k].delays = <<1, 2, 4>>
        /\ \E k2 \in BatchOf(task[i]) : task[i].items[k2].st = "get"

\* C9: a symbol-sync that raises on a listing failure does not abort the
\* sweep: when sync is over, every symbol-sync of every wave has been
\* started and has run to completion, none was cancelled.
C9_SweepSurvivesListingFailure ==
    sync_pc \in {"done", "raised"} =>
        \A i \in Tasks : task[i].pc \in {"done", "returned", "raised"}

\* C10: a listing failure, transport error or non-success status, on any
\* page of the monthly or the daily listing aborts that symbol's sync: the
\* symbol-sync performs no deletion and dispatches no transfer.
C10_ListingFailureAborts ==
    \A i \in Tasks :
        task[i].list_fail # "none" =>
            /\ task[i].deleted = {}
            /\ \A k \in DOMAIN task[i].items : task[i].items[k].st = "new"

\* the archive keys of a catalog, in listing order
ArchiveKeys(keys) ==
    SelectSeq(keys, LAMBDA key : EndsWith(key, ".zip") /\ ~EndsWith(key, ".zip.CHECKSUM"))

\* q is an initial segment of r
IsPrefixOf(q, r) == Len(q) <= Len(r) /\ q = SubSeq(r, 1, Len(q))

\* C13: list_remote_files follows the truncation flag through every page
\* and returns, in listing order, exactly the keys of all pages that end in
\* .zip and not in .zip.CHECKSUM: what it has accumulated is always an
\* initial segment of the archive keys of the catalog, a monthly listing
\* that completed returned all of them, and a reconciliation after two
\* completed listings is the reconciliation of all monthly and all daily
\* archive keys.
C13_ListFilesComplete ==
    \A i \in Tasks :
        LET t == task[i]
            monthly == ArchiveKeys(remote[symbols[i]].monthly)
            daily   == ArchiveKeys(remote[symbols[i]].daily)
        IN  /\ t.pc = "listM" => IsPrefixOf(t.files, monthly)
            /\ t.pc = "listD" => IsPrefixOf(t.files, daily)
            /\ IsPrefixOf(t.months_files, monthly)
            /\ (t.pc = "listD" /\ t.list_fail = "none") => t.months_files = monthly
            /\ (t.pc \in {"delete", "fetch", "done"} /\ t.list_fail = "none") =>
                  t.dates = compute_dates_cover(t.local_dates, monthly, daily)

C13_Witness ==
    \E i \in Tasks :
        /\ task[i].pc = "fetch"
        /\ task[i].list_fail = "none"
        /\ Len(remote[symbols[i]].monthly) > PageSize
        /\ Len(task[i].months_files) >= 2
        /\ task[i].months_files = ArchiveKeys(remote[symbols[i]].monthly)
        /\ task[i].dates.D_DL # {}


\* C16: a symbol whose reconciliation yields three empty sets is reported as
\* up-to-date and its sync_symbol has no deletion and no transfer; every
\* step that changes the mirror is a step of a symbol-sync with a non-empty
\* reconciliation.
C16_UpToDateDoesNothing ==
    [][/\ \A i \in Tasks :
             (task[i].pc = "done" /\ task[i].dates = NoDates) =>
                 /\ task[i].uptodate
                 /\ task[i].to_fetch = <<>>
                 /\ task[i].items = <<>>
                 /\ task[i].dels = <<>>
                 /\ task[i].deleted = {}
                 /\ task[i].reports = <<>>
       /\ store' # store =>
             \E i \in Tasks :
                 /\ task'[i] # task[i]
                 /\ ~task[i].uptodate
                 /\ task[i].dates # NoDates]_vars

C16_Witness ==
    \E i \in Tasks :
        /\ task[i].pc = "done"
        /\ task[i].uptodate
        /\ task[i].dates = NoDates
        /\ task[i].list_fail = "none"
        /\ task[i].local_dates # {}
        /\ \E k \in Tasks : task[k].pc = "fetch"

\* C17: a symbol is reported as up-to-date only if its monthly and its
\* daily listing were obtained completely; a symbol whose listing failed is
\* never reported as up-to-date.
C17_UpToDateOnlyIfListed ==
    \A i \in Tasks : task[i].uptodate => task[i].list_fail = "none"


\* range(0, len(symbols), SYMBOL_CONCURRENCY * 2)
WaveStarts == {w \in 0..(Len(symbols) - 1) : w % WaveSize = 0}

\* the wave a position of the symbol list belongs to, counted from 0
WaveIndex(k) == (k - 1) \div WaveSize

\* C18: sync partitions the symbol list into consecutive waves of fixed
\* size: every symbol is in exactly one wave, the wave of its position, and
\* no symbol-sync of a wave has started unless every symbol-sync of every
\* earlier wave has completed and been joined.
C18_WavesInOrder ==
    /\ \A k \in DOMAIN symbols :
          /\ Cardinality({w \in WaveStarts : k \in WaveOf(w)}) = 1
          /\ k \in WaveOf(WaveIndex(k) * WaveSize)
    /\ \A i, j \in Tasks :
          (WaveIndex(i) < WaveIndex(j) /\ task[j].pc # "idle") => task[i].pc = "returned"
    /\ \A i, j \in Tasks :
          (WaveIndex(i) = WaveIndex(j) /\ task[j].pc = "idle") => task[i].pc = "idle"

C18_Witness ==
    /\ sync_pc = "wave"
    /\ wave_i = WaveSize
    /\ \A i \in Tasks : WaveIndex(i) = 0 => task[i].pc = "returned"
    /\ \E j \in Tasks : WaveIndex(j) = 1 /\ task[j].pc = "fetch"
    /\ \E j \in Tasks : WaveIndex(j) = 1 /\ task[j].pc = "listD"

\* the symbol-syncs that have started and not finished
InProgress == {k \in Tasks : task[k].pc \notin Terminal \cup {"idle"}}

\* C19: at every moment of a sweep the number of symbol-syncs in progress
\* is at most SYMBOL_CONCURRENCY.
C19_SymbolConcurrencyCap ==
    Cardinality(InProgress) <= SYMBOL_CONCURRENCY


\* C20: within one symbol-sync the transfers that hold a slot of the fetch
\* limiter are never more than its capacity MAX_CONCURRENT_TASKS // 2 = 50,
\* the filesystem deletions in progress are never more than the capacity of
\* the delete limiter, and the delete capacity is lower than the fetch
\* capacity.
C20_LimiterCapacities ==
    /\ FetchSemaphore = 50
    /\ DeleteSemaphore < FetchSemaphore
    /\ \A i \in Tasks :
          /\ Cardinality({k \in DOMAIN task[i].items :
                             task[i].items[k].st \in {"get", "sleep"}}) <= FetchSemaphore
          /\ Cardinality({d \in DOMAIN task[i].dels :
                             task[i].dels[d] = "unlink"}) <= DeleteSemaphore

C20_Witness ==
    \E i \in Tasks :
        /\ storage_mode = "local"
        /\ task[i].pc = "delete"
        /\ Cardinality({d \in DOMAIN task[i].dels : task[i].dels[d] = "unlink"})
              = DeleteSemaphore
        /\ \E d \in DOMAIN task[i].dels :
              /\ task[i].dels[d] = "pending"
              /\ DeletePath(symbols[i], d) \in store


\* the batch a position of to_fetch belongs to, counted from 0
BatchIndex(k) == (k - 1) \div BatchSize

\* C21: the fetches of a symbol are grouped into consecutive batches of
\* fixed size: the items dispatched and not yet joined are items of one
\* batch, an item is dispatched only when every item of every earlier batch
\* has been joined with a final outcome, and the items of a batch are
\* dispatched together.
C21_BatchesInOrder ==
    \A i \in Tasks : \A k, n \in DOMAIN task[i].items :
        LET a == task[i].items[k]
            b == task[i].items[n]
        IN  /\ (BatchIndex(k) < BatchIndex(n) /\ b.st # "new") =>
                  /\ a.st = "returned"
                  /\ a.fate \in Succeeded \cup Failed
            /\ (BatchIndex(k) = BatchIndex(n) /\ b.st = "new") => a.st = "new"
            /\ (a.st \in {"pending", "get", "sleep", "done"} /\ task[i].pc = "fetch") =>
                  (task[i].bi = BatchIndex(k) * BatchSize /\ k \in BatchOf(task[i]))

C21_Witness ==
    \E i \in Tasks : \E k, n, m \in DOMAIN task[i].items :
        /\ k # n
        /\ BatchIndex(k) = 0 /\ BatchIndex(n) = 0 /\ BatchIndex(m) = 1
        /\ task[i].items[k].st = "returned" /\ task[i].items[n].st = "returned"
        /\ task[i].items[k].fate = "exhausted" /\ task[i].items[n].fate = "stored"
        /\ task[i].items[m].st = "get"


\* C22: batch_delete_s3 sends every key of DaysToRemove in exactly one
\* bulk-delete request and no request carries more keys than the batch size
\* (1000, scaled); a request that raises or that reports keys under Errors
\* does not keep the remaining requests from being sent: when the call
\* returns every key has the outcome of its request and exactly the keys
\* reported as deleted are gone.
C22_BulkDeleteChunks ==
    /\ [](\A i \in Tasks :
            (storage_mode = "s3" /\ task[i].pc = "delete") =>
               \A objs \in Orders(DOMAIN task[i].dels) :
                  /\ \A k \in DOMAIN objs :
                        Cardinality({j \in BulkStarts(Len(objs)) :
                                        \E n \in DOMAIN BulkBatch(objs, j) :
                                           j + n = k}) = 1
                  /\ \A j \in BulkStarts(Len(objs)) :
                        /\ Len(BulkBatch(objs, j)) \in 1..DeleteBatchSize
                        /\ \A n \in DOMAIN BulkBatch(objs, j) :
                              BulkBatch(objs, j)[n] = objs[j + n])
    /\ [][\A i \in Tasks :
            (storage_mode = "s3" /\ task[i].pc = "delete"
                                 /\ task'[i].pc \in {"fetch", "done"}) =>
               /\ task[i].dels # <<>>
               /\ DOMAIN task'[i].dels = DOMAIN task[i].dels
               /\ \A d \in DOMAIN task'[i].dels :
                     task'[i].dels[d] \in {"done", "error", "raised"}
               /\ store \ store' =
                     {DeletePath(symbols[i], d) :
                         d \in {e \in DOMAIN task'[i].dels : task'[i].dels[e] = "done"}}
               /\ store' \subseteq store]_vars

C22_Witness ==
    \E i \in Tasks : \E d, e \in DOMAIN task[i].dels :
        /\ storage_mode = "s3"
        /\ task[i].pc = "fetch"
        /\ task[i].dels[d] = "raised"
        /\ task[i].dels[e] = "done"
        /\ DeletePath(symbols[i], d) \in store
        /\ DeletePath(symbols[i], e) \notin store


DeleteFailed == {"failed", "error", "raised"}

\* C23: a deletion failure (an unlink that raises, also because the file
\* vanished before it, a bulk-delete request that raises, a key reported
\* under Errors) is recorded for the item it concerns and never escalates:
\* the task goes on to its fetch phase and is not aborted by it.
C23_DeleteFailuresRecorded ==
    \A i \in Tasks : \A d \in DOMAIN task[i].dels :
        task[i].dels[d] \in DeleteFailed =>
            /\ DeleteRecord(task[i].dels[d]) = "item"
            /\ task[i].pc # "raised"


\* C24: the destination artifact is written atomically: in no reachable
\* state, a transfer that failed while writing included, does the
\* destination hold a partially written artifact that list_local_dates
\* counts as coverage.
C24_AtomicWrite ==
    \A i \in Tasks : \A k \in DOMAIN task[i].to_fetch :
        ItemPath(symbols[i], task[i].to_fetch[k]) \in partial =>
            ParseToken(task[i].to_fetch[k])
                \notin list_local_dates(cfg, storage_mode, store, symbols[i])

\* C29: no storage call blocks the scheduler: on the object store the step
\* that issues a call is not the step that has its answer, so that other
\* tasks can run between the two. The step in which a transfer enters the
\* limiter and probes its destination does not finish the transfer, the
\* step that receives the archive does not also complete the upload, and
\* the step that sends the bulk delete does not also remove the objects.
C29_StorageCallsSuspend ==
    [][storage_mode = "s3" =>
          \A i \in Tasks :
              /\ task[i].pc = "delete" =>
                    \A d \in DOMAIN task[i].dels :
                        task[i].dels[d] = "pending" /\ DeletePath(symbols[i], d) \in store =>
                            DeletePath(symbols[i], d) \in store'
              /\ task[i].pc = "fetch" /\ task'[i].pc = "fetch" =>
                    \A k \in DOMAIN task[i].items :
                        /\ task[i].items[k].st = "pending" =>
                              task'[i].items[k].st # "done"
                        /\ task[i].items[k].st = "get" =>
                              task'[i].items[k].fate # "stored"]_vars

\* C30: a sync pass loses no coverage of the mirror: when the sync of a
\* symbol has finished, the mirror holds the monthly artifact of every day
\* whose daily artifact the pass deleted, also when transfers of the pass
\* failed for good.
C30_CoverageNeverLost ==
    \A i \in Tasks :
        task[i].pc = "done" =>
            \A d \in DOMAIN task[i].dels :
                task[i].dels[d] = "done" =>
                    SavePath(cfg, storage_mode, symbols[i], StrTake(d, 7) \o ".parquet")
                        \in store

\* a finished symbol-sync in which every deletion and every transfer
\* succeeded
PassSucceeded(t) ==
    /\ t.pc = "done"
    /\ \A d \in DOMAIN t.dels : t.dels[d] = "done"
    /\ \A k \in DOMAIN t.items : t.items[k].res = "True"

\* the coverage after the pass is (previous coverage - D_RM) + M_DL + D_DL,
\* and compute_dates_cover over it and the unchanged remote coverage is empty
Converged(i) ==
    LET t   == task[i]
        now == list_local_dates(cfg, storage_mode, store, symbols[i])
    IN  /\ now = (t.local_dates \ t.dates.D_RM) \cup t.dates.M_DL \cup t.dates.D_DL
        /\ compute_dates_cover(now, CompleteListing(remote[symbols[i]].monthly),
                               CompleteListing(remote[symbols[i]].daily)) = NoDates

Fetching(t) == t.pc \in {"fetch", "done"} /\ ~t.uptodate

\* C35: in one sync pass of a symbol every DateToken of MonthsToFetch and
\* DaysToFetch is handed to download_and_store exactly once and in exactly
\* one batch, and no other token is fetched: the to_fetch list a symbol-sync
\* builds names each token of the two sets once and nothing else and stays
\* as it is, an item is dispatched by the one batch its position belongs
\* to, a dispatched item is never dispatched again, and the batches
\* reported at the end partition to_fetch.
C35_EachTokenOnce ==
    /\ [](\A i \in Tasks :
            Fetching(task[i]) =>
                LET t == task[i]
                IN  /\ Len(t.to_fetch) = Cardinality(t.dates.M_DL \cup t.dates.D_DL)
                    /\ \A k \in DOMAIN t.items :
                          t.items[k].st # "new" =>
                              \E n \in 1..(Len(t.reports) + 1) :
                                  BatchIndex(k) = n - 1 /\ (n - 1) * BatchSize <= t.bi
                    /\ \A m, n \in DOMAIN t.reports :
                          m # n => t.reports[m].batch \cap t.reports[n].batch = {}
                    /\ t.pc = "done" =>
                          UNION {t.reports[n].batch : n \in DOMAIN t.reports}
                              = DOMAIN t.to_fetch)
    /\ [][\A i \in Tasks :
            /\ ~Fetching(task[i]) /\ Fetching(task'[i]) =>
                  {ParseToken(task'[i].to_fetch[k]) : k \in DOMAIN task'[i].to_fetch}
                      = task'[i].dates.M_DL \cup task'[i].dates.D_DL
            /\ Fetching(task[i]) /\ Fetching(task'[i]) =>
                  /\ task'[i].to_fetch = task[i].to_fetch
                  /\ task'[i].dates = task[i].dates
                  /\ \A k \in DOMAIN task[i].items :
                        task'[i].items[k].st = "pending" =>
                            task[i].items[k].st \in {"new", "pending"}]_vars

C35_Witness ==
    \E i \in Tasks :
        /\ task[i].pc = "done"
        /\ task[i].dates.M_DL # {}
        /\ task[i].dates.D_DL # {}
        /\ Len(task[i].reports) >= 2

\* C36: a transfer stops at its first successful attempt: the attempt that
\* stores the artifact is the last step of the retry loop, the item is
\* finished with it, and from then on it makes no request, waits for no
\* backoff and stores nothing, so that an item is stored at most once in a
\* pass.
C36_StopsAtFirstSuccess ==
    /\ [](\A i \in Tasks : \A k \in DOMAIN task[i].items :
            task[i].items[k].fate = "stored" =>
                task[i].items[k].st \in {"done", "returned"})
    /\ [][\A i \in Tasks : \A k \in DOMAIN task[i].items \cap DOMAIN task'[i].items :
            /\ task[i].items[k].fate = "stored" =>
                  /\ task'[i].items[k].fate = "stored"
                  /\ task'[i].items[k].st \in {"done", "returned"}
                  /\ task'[i].items[k].tries <= task[i].items[k].tries
                  /\ Len(task'[i].items[k].delays) <= Len(task[i].items[k].delays)
            /\ task[i].items[k].fate # "stored" /\ task'[i].items[k].fate = "stored" =>
                  /\ task[i].items[k].st = "get"
                  /\ task'[i].items[k].tries = task[i].items[k].tries
                  /\ task'[i].items[k].file_path \in store']_vars

C36_Witness ==
    \E i \in Tasks : \E k \in DOMAIN task[i].items :
        /\ task[i].items[k].st = "done"
        /\ task[i].items[k].fate = "stored"
        /\ task[i].items[k].tries = 2
        /\ task[i].items[k].delays = <<1>>
        /\ task[i].items[k].file_path \in store

\* the transfers of the current batch that have entered the limited section
\* of download_and_store and have not left it by any exit
InsideFetch(t) ==
    {k \in BatchOf(t) : t.items[k].st \notin {"new", "pending", "done", "returned"}}

C39_HeadErrorFailsAtOnce ==
    /\ [](\A i \in Tasks : \A k \in DOMAIN task[i].items :
            task[i].items[k].fate = "head_error" =>
                /\ storage_mode = "s3"
                /\ task[i].items[k].st \in {"done", "returned"}
                /\ task[i].items[k].res = "False"
                /\ task[i].items[k].tries = 0
                /\ task[i].items[k].delays = <<>>)
    /\ [][\A i \in Tasks : \A k \in DOMAIN task[i].items \cap DOMAIN task'[i].items :
            task[i].items[k].fate # "head_error" /\ task'[i].items[k].fate = "head_error" =>
                /\ task[i].items[k].st = "pending"
                /\ store' = store
                /\ task'[i].pc = task[i].pc
                /\ \A k2 \in DOMAIN task[i].items \ {k} :
                      task'[i].items[k2] = task[i].items[k2]
                /\ \A j \in Tasks \ {i} : task'[j] = task[j]]_vars

C39_Witness ==
    \E i \in Tasks : \E k, k2 \in BatchOf(task[i]) :
        /\ storage_mode = "s3"
        /\ task[i].pc = "fetch"
        /\ task[i].items[k].fate = "head_error"
        /\ task[i].items[k].st = "done"
        /\ task[i].items[k2].fate = "stored"
        /\ task[i].items[k2].file_path \in store
        /\ task[i].items[k].file_path \notin store

\* every transfer and every deletion that was dispatched has its outcome,
\* and no transfer made more than max_retries + 1 attempts
AllSettled ==
    \A i \in Tasks :
        /\ \A k \in DOMAIN task[i].items :
              /\ task[i].items[k].st \notin {"pending", "get", "sleep"}
              /\ task[i].items[k].tries <= max_retries + 1
        /\ \A d \in DOMAIN task[i].dels : task[i].dels[d] \in DeleteFinal

\* C37: every sync pass terminates with its work settled: when sync has
\* ended, by returning or by raising, every transfer and every deletion it
\* dispatched has a final outcome, and no transfer has made more than
\* max_retries + 1 attempts.
C37_SyncEndsSettled ==
    sync_pc \in {"done", "raised"} => AllSettled


(***************************************************************************)
(* Transfer specification: download_and_store as sync_symbol invokes it    *)
(* for one batch, for any state of the destination: each destination of    *)
(* the batch holds an artifact already or does not.                        *)
(***************************************************************************)
FetchSymbol == "BTCUSDT"

\* the batch handed to download_and_store: one monthly and one daily archive
FetchList == BuildToFetch(cfg, FetchSymbol, <<"2024-01">>, <<"2024-02-11">>)

InitFetch ==
    /\ cfg \in SyncConfigs
    /\ storage_mode \in Modes
    /\ symbols = <<FetchSymbol>>
    /\ sync_pc = "wave"
    /\ wave_i = 0
    /\ rc = [pc |-> "unused"]
    /\ ls = [pc |-> "unused"]
    /\ partial = {}
    /\ tp = [pc |-> "unused"]
    /\ cli = [pc |-> "unused"]
    /\ remote = [s \in {FetchSymbol} |-> Catalog(cfg, s, Months, Days)]
    /\ \E held \in SUBSET {"2024-01", "2024-02-11"} :
          store = {SavePath(cfg, storage_mode, FetchSymbol, t \o ".parquet") : t \in held}
    /\ task = <<Dispatch([IdleTask EXCEPT !.to_fetch = FetchList,
                                          !.items = [k \in DOMAIN FetchList |-> NewItem]], 0)>>

NextFetch ==
    \/ \E i \in Tasks : \E k \in DOMAIN task[i].items : StartItem(i, k)
    \/ \E i \in Tasks : \E k \in DOMAIN task[i].items : AttemptDone(i, k)
    \/ \E i \in Tasks : \E k \in DOMAIN task[i].items : WakeUp(i, k)
    \/ \E i \in Tasks : JoinBatch(i)

SpecFetch == InitFetch /\ [][NextFetch]_vars

(***************************************************************************)
(* Claims about one transfer (specification SpecFetch).                    *)
(***************************************************************************)
\* C11: at-most-once materialization: a download_and_store that is invoked
\* while its destination already holds an artifact ends at once, without a
\* download attempt and without a write, as skipped-existing (or as failed
\* when the existence check itself fails), under the object store and under
\* the filesystem alike.
C11_AtMostOnce ==
    [][\A i \in Tasks : \A k \in DOMAIN task[i].items :
          (/\ task[i].items[k].st = "pending"
           /\ task'[i].items[k].st # "pending"
           /\ ItemPath(symbols[i], task[i].to_fetch[k]) \in store)
          => /\ task'[i].items[k].st = "done"
             /\ task'[i].items[k].tries = 0
             /\ task'[i].items[k].fate \in {"skipped", "head_error", "escaped"}]_vars

(***************************************************************************)
(* list_remote_symbols and sync(symbols=None): the symbol listing, one     *)
(* request per step, followed by the waves over the symbols it returned.   *)
(***************************************************************************)
\* the prefix= query value of the symbol listing: build_listing_symbols_path
\* followed by "/&delimiter=/"
ListingSymbolsPrefix(c) ==
    Join(<<"data", c.market_type, "daily", c.data_type>>, "/") \o "/"

\* the CommonPrefixes of the upstream archive, in key order: one per symbol
\* that has daily archives
CommonPrefixes ==
    Sorted({ListingSymbolsPrefix(cfg) \o sym \o "/" :
               sym \in {x \in DOMAIN remote : remote[x].daily # <<>>}})

\* the listing protocol for common prefixes: the prefixes after the marker
\* in key order, at most max-keys of them, whether more remain, and the
\* NextMarker when the server supplies one
ServerSymbolsPage(marker, supplies) ==
    LET after     == SelectSeq(CommonPrefixes, LAMBDA q : marker = "" \/ StrLess(marker, q))
        contents  == SubSeq(after, 1, Min(PageSize, Len(after)))
        truncated == PageSize < Len(after)
    IN  [contents    |-> contents,
         truncated   |-> truncated,
         next_marker |-> IF truncated /\ supplies THEN Last(contents) ELSE ""]

\* p.find("s3:Prefix").text.split(self.data_type.value)[-1].strip("/")
SymbolOf(c, prefix) == Strip(AfterLast(prefix, c.data_type), "/")

\* the symbols one page appends, in page order
PageSymbols(c, contents) ==
    SelectSeq([k \in DOMAIN contents |-> SymbolOf(c, contents[k])], LAMBDA x : x # "")

\* a client that takes every page for the last one
SymbolsTruncated_never(page) == FALSE

\* IsTruncated is present and "true"
SymbolsTruncated(page) == page.truncated

\* next_marker.text if next_marker is not None else symbols[-1]
NextSymbolsMarker(page, syms) ==
    IF page.next_marker # "" THEN page.next_marker ELSE Last(syms)

\* the accumulated list returned as it is
list_remote_symbols_result_list(syms) == syms

\* list(sorted(set(symbols)))
list_remote_symbols_result(syms) == Sorted(Range(syms))

SymbolsReturn(l) ==
    [l EXCEPT !.pc = "returned", !.result = list_remote_symbols_result(l.symbols)]

\* the answer to one request of list_remote_symbols
ListSymbolsStep(l, outcome) ==
    LET page == ServerSymbolsPage(l.marker, l.supplies)
        syms == l.symbols \o PageSymbols(cfg, page.contents)
        got  == [l EXCEPT !.symbols = syms, !.pages = Append(@, page)]
    IN  CASE outcome = "transport" -> [l EXCEPT !.pc = "raised", !.failed = "transport"]
          [] outcome = "status"    -> SymbolsReturn([l EXCEPT !.failed = "status"])
          [] outcome = "ok" ->
                IF SymbolsTruncated(page)
                THEN IF page.next_marker = "" /\ syms = <<>>
                     THEN [got EXCEPT !.pc = "raised", !.failed = "index"]
                     ELSE [got EXCEPT !.marker = NextSymbolsMarker(page, syms),
                                      !.requests = @ + 1]
                ELSE SymbolsReturn(got)

\* sync(symbols=None) up to the first request of list_remote_symbols
ListSymbolsCall ==
    /\ sync_pc = "init"
    /\ ls.pc = "none"
    /\ sync_pc' = "symbols"
    /\ ls' = [ls EXCEPT !.pc = "request", !.requests = 1]
    /\ UNCHANGED <<cfg, storage_mode, remote, store, symbols, wave_i, task, rc, partial, tp, cli>>

\* the tasks of sync once the first wave over syms is gathered
FirstWave(syms) ==
    [k \in DOMAIN syms |-> IF k <= WaveSize THEN StartedTask(syms[k]) ELSE IdleTask]

\* one response of the symbol listing; when the listing returns, sync goes
\* on to its first wave without suspending
SymbolsResponse ==
    /\ sync_pc = "symbols"
    /\ ls.pc = "request"
    /\ ls.requests <= MaxRequests
    /\ \E outcome \in {"ok", "status", "transport"} :
          LET l2 == ListSymbolsStep(ls, outcome)
          IN  /\ ls' = l2
              /\ CASE l2.pc = "returned" ->
                        /\ symbols' = l2.result
                        /\ wave_i' = 0
                        /\ task' = FirstWave(l2.result)
                        /\ sync_pc' = IF Len(l2.result) = 0 THEN "done" ELSE "wave"
                   [] l2.pc = "raised" ->
                        /\ sync_pc' = "raised"
                        /\ UNCHANGED <<symbols, wave_i, task>>
                   [] OTHER -> UNCHANGED <<symbols, wave_i, task, sync_pc>>
    /\ UNCHANGED <<cfg, storage_mode, remote, store, rc, partial, tp, cli>>

\* the symbols the upstream archive may offer; each is mirrored completely
ListedUniverse == {"ADAUSDT", "BNBUSDT", "ETHUSDT", "LTCUSDT"}

ListedCoverage == Cov({}, {"2024-01-05"}, {}, {"2024-01-05"})

InitSymbols ==
    /\ cfg \in SyncConfigs
    /\ storage_mode \in Modes
    /\ symbols = <<>>
    /\ sync_pc = "init"
    /\ wave_i = 0
    /\ task = <<>>
    /\ rc = [pc |-> "unused"]
    /\ \E offered \in SUBSET ListedUniverse :
          /\ remote = [sym \in offered |->
                          Catalog(cfg, sym, ListedCoverage.rM, ListedCoverage.rD)]
          /\ store = {SavePath(cfg, storage_mode, sym, t \o ".parquet") :
                         sym \in offered, t \in ListedCoverage.lM \cup ListedCoverage.lD}
    /\ \E supplies \in BOOLEAN :
          ls = [pc |-> "none", symbols |-> <<>>, marker |-> "", requests |-> 0,
                pages |-> <<>>, failed |-> "none", result |-> <<>>,
                supplies |-> supplies]
    /\ partial = {}
    /\ tp = [pc |-> "unused"]
    /\ cli = [pc |-> "unused"]

NextSymbols ==
    \/ ListSymbolsCall
    \/ SymbolsResponse
    \/ \E i \in Tasks : ListResponse(i)
    \/ JoinWave
    \/ SyncRaise

SpecSymbols == InitSymbols /\ [][NextSymbols]_vars

(***************************************************************************)
(* Claims about the symbol listing (specification SpecSymbols).            *)
(***************************************************************************)
\* the symbols the upstream archive offers
OfferedSymbols == {sym \in DOMAIN remote : remote[sym].daily # <<>>}

\* a list of strings in strictly increasing order: sorted, no duplicates
StrictlySorted(q) == \A k \in 1..(Len(q) - 1) : StrLess(q[k], q[k + 1])

\* C12: pagination termination of list_remote_symbols: when the listing
\* returns without a failed request, it has issued exactly as many requests
\* as it received pages, every page but the last declared truncation and
\* the last did not, the pages are the N = ceil(symbols / max-keys) pages of
\* the archive, and the result is the sorted union of the symbols of all
\* pages without duplicates.
C12_PaginationTermination ==
    (ls.pc = "returned" /\ ls.failed = "none") =>
        /\ ls.requests = Len(ls.pages)
        /\ \A n \in DOMAIN ls.pages : ls.pages[n].truncated <=> n < Len(ls.pages)
        /\ Len(ls.pages) =
              IF OfferedSymbols = {} THEN 1
              ELSE (Cardinality(OfferedSymbols) + PageSize - 1) \div PageSize
        /\ Range(ls.result) = OfferedSymbols
        /\ StrictlySorted(ls.result)

C12_Witness ==
    /\ ls.pc = "returned"
    /\ ls.failed = "none"
    /\ Len(ls.pages) >= 2
    /\ ls.requests = Len(ls.pages)
    /\ Len(ls.result) > PageSize

\* C14: list_remote_symbols ends on the first non-200 response: the step
\* that receives it returns the sorted, duplicate-free symbols of the pages
\* received before, and the listing issues no request afterwards.
C14_StopsOnFirstNon200 ==
    [][/\ (ls.pc = "request" /\ ls'.failed = "status") =>
              /\ ls'.pc = "returned"
              /\ ls'.requests = ls.requests
              /\ ls'.pages = ls.pages
              /\ Range(ls'.result) = Range(ls.symbols)
              /\ StrictlySorted(ls'.result)
       /\ (ls.pc = "returned" /\ ls.failed = "status") => ls' = ls]_vars

C14_Witness ==
    /\ ls.pc = "returned"
    /\ ls.failed = "status"
    /\ Len(ls.pages) >= 1
    /\ Len(ls.result) >= 1
    /\ Len(ls.symbols) > Len(ls.result)
    /\ Cardinality(OfferedSymbols) > Len(ls.result)

\* C15: a failed symbol listing is taken as unknown: sync(symbols=None)
\* never completes a sweep over the symbols of a listing that ended on a
\* non-success response.
C15_FailedListingIsUnknown ==
    (sync_pc = "done" /\ ls.pc = "returned") => ls.failed = "none"

\* C28: when a page of the symbol listing declares truncation, the marker
\* of the next request is the NextMarker the server supplied and otherwise
\* the last common-prefix key of the page; the markers of successive
\* requests increase strictly in key order and no page is received twice.
C28_MarkerAdvances ==
    /\ [][(ls.pc = "request" /\ ls'.pc = "request" /\ ls'.requests = ls.requests + 1) =>
             LET page == Last(ls'.pages)
             IN  /\ page.truncated
                 /\ ls'.marker = IF page.next_marker # "" THEN page.next_marker
                                                          ELSE Last(page.contents)
                 /\ ls.marker = "" \/ StrLess(ls.marker, ls'.marker)]_vars
    /\ [](ls.pc # "unused" =>
             \A m, n \in DOMAIN ls.pages : m # n => ls.pages[m] # ls.pages[n])

\* the outcome the specification names for a transfer
OutcomeClass(fate) ==
    CASE fate = "stored"  -> "stored"
      [] fate = "skipped" -> "skipped-existing"
      [] OTHER            -> "failed"

\* C25: download_and_store reifies its result as a value, stored,
\* skipped-existing or failed, and never propagates an uncaught fault to
\* its caller: no transfer ends with an exception, and the results the
\* batch report is computed from tell the three outcomes apart.
C25_OutcomeReified ==
    \A i \in Tasks : \A k, n \in DOMAIN task[i].items :
        LET a == task[i].items[k]
            b == task[i].items[n]
        IN  (a.fate # "none" /\ b.fate # "none") =>
               /\ a.res # "exception"
               /\ OutcomeClass(a.fate) # OutcomeClass(b.fate) => a.res # b.res

(***************************************************************************)
(* Time-unit specification: safe_parse_time as a function of a column of   *)
(* epoch integers and of the current year.  An epoch integer is held by    *)
(* its magnitude, [y |-> whole years since 1970, e |-> the power of 1000   *)
(* of its unit below the second: 0 s, 1 ms, 2 us, 3 ns], since the         *)
(* integers themselves do not fit the model checker's arithmetic; "nan" is *)
(* a cell pd.to_numeric(errors='coerce') cannot read.                      *)
(***************************************************************************)
\* the cells of one column
SeriesLen == 2

\* for unit in ["ms", "us", "ns"]
Units == <<"ms", "us", "ns">>

UnitExp(unit) == CASE unit = "ms" -> 1 [] unit = "us" -> 2 [] unit = "ns" -> 3

RECURSIVE Pow1000(_)
Pow1000(n) == IF n = 0 THEN 1 ELSE 1000 * Pow1000(n - 1)

\* the last year a pandas Timestamp can hold
TimestampMaxYear == 2262

\* a cell pd.to_numeric(errors='coerce') cannot read
NaN == [y |-> 0, e |-> -1]

Year(n) == [kind |-> "year", year |-> n]
NaT == [kind |-> "NaT", year |-> 0]
OutOfBounds == [kind |-> "OutOfBoundsDatetime", year |-> 0]

\* pd.to_datetime(pd.to_numeric(v, errors='coerce'), unit=unit): the year of
\* the timestamp, NaT for an unreadable cell, OutOfBounds when the
\* conversion raises OutOfBoundsDatetime
to_datetime(v, unit) ==
    IF v = NaN THEN NaT
    ELSE LET d    == v.e - UnitExp(unit)
             year == IF d >= 0 THEN 1970 + v.y * Pow1000(d)
                               ELSE 1970 + (v.y \div Pow1000(0 - d))
         IN  IF year > TimestampMaxYear THEN OutOfBounds ELSE Year(year)

\* the conversion of the whole column, which raises when one cell does
series_to_datetime(series, unit) ==
    IF \E k \in DOMAIN series : to_datetime(series[k], unit) = OutOfBounds
    THEN [raised |-> "OutOfBoundsDatetime", values |-> <<>>]
    ELSE [raised |-> "none",
          values |-> [k \in DOMAIN series |-> to_datetime(series[k], unit)]]

\* a window that begins with the year 2000
PlausibleYear_from_2000(ts, now_year) ==
    /\ ts.kind = "year"
    /\ 2000 <= ts.year
    /\ ts.year < now_year + 2

\* ts is not pd.NaT and 2000 < ts.year < datetime.now().year + 2
PlausibleYear(ts, now_year) ==
    /\ ts.kind = "year"
    /\ 2000 < ts.year
    /\ ts.year < now_year + 2

\* the loop of safe_parse_time from the unit at position n on
RECURSIVE parse_from(_, _, _, _)
parse_from(series, now_year, units, n) ==
    IF n > Len(units)
    THEN [unit |-> "none", raised |-> "ValueError", values |-> <<>>]
    ELSE LET ts == to_datetime(series[1], units[n])
             column == series_to_datetime(series, units[n])
         IN  IF PlausibleYear(ts, now_year) /\ column.raised = "none"
             THEN [unit |-> units[n], raised |-> "none", values |-> column.values]
             ELSE parse_from(series, now_year, units, n + 1)

\* safe_parse_time(series) called in the year now_year
safe_parse_time(series, now_year) == parse_from(series, now_year, Units, 1)

\* the magnitudes of the cells: the epoch itself, the years around the lower
\* and the upper end of the window, a year beyond the Timestamp range
CellYears == {0, 30, 31, 55, 56, 293}
Cells == [y : CellYears, e : 0..3] \cup {NaN}
NowYears == {2024}

InitParse ==
    /\ cfg \in SyncConfigs
    /\ storage_mode = "local"
    /\ remote = [s \in {} |-> <<>>]
    /\ store = {}
    /\ symbols = <<>>
    /\ sync_pc = "init"
    /\ wave_i = 0
    /\ task = <<>>
    /\ rc = [pc |-> "unused"]
    /\ ls = [pc |-> "unused"]
    /\ partial = {}
    /\ cli = [pc |-> "unused"]
    /\ \E series \in [1..SeriesLen -> Cells], now_year \in NowYears :
          tp = [pc |-> "input", series |-> series, now_year |-> now_year,
                result |-> [unit |-> "none", raised |-> "none", values |-> <<>>]]

ParseTime ==
    /\ tp.pc = "input"
    /\ tp' = [tp EXCEPT !.pc = "returned",
                        !.result = safe_parse_time(tp.series, tp.now_year)]
    /\ UNCHANGED <<cfg, storage_mode, remote, store, symbols, sync_pc, wave_i, task, rc, ls, partial, cli>>

NextParse == ParseTime

SpecParse == InitParse /\ [][NextParse]_vars

\* the cells of the column are all in the unit of exponent e
ColumnInUnit(series, e) == \A k \in DOMAIN series : series[k].e = e

InWindow(ts, now_year) ==
    ts.kind = "year" /\ 2001 <= ts.year /\ ts.year <= now_year + 1

\* the years the column's cells convert to under a unit are all in
\* [2001, current-year + 1]
ColumnPlausible(series, unit, now_year) ==
    \A k \in DOMAIN series : InWindow(to_datetime(series[k], unit), now_year)

\* C26 as stated: the unit selected is the first of ms, us, ns under which
\* the values of the column convert to years in [2001, current-year + 1],
\* and the call fails when there is no such unit.
C26_FirstPlausibleUnit ==
    tp.pc = "returned" =>
        LET ok == {n \in DOMAIN Units : ColumnPlausible(tp.series, Units[n], tp.now_year)}
        IN  IF ok = {}
            THEN tp.result.raised = "ValueError"
            ELSE tp.result.unit = Units[CHOOSE n \in ok : \A m \in ok : n <= m]

\* the sample of the column converts to a year of the window under the unit
\* and no cell of the column is out of the Timestamp range under it
SamplePlausible(series, unit, now_year) ==
    /\ InWindow(to_datetime(series[1], unit), now_year)
    /\ \A k \in DOMAIN series : to_datetime(series[k], unit) # OutOfBounds

\* C26 (amended): safe_parse_time tries ms, us, ns in that order and selects
\* the first unit under which the first value of the column converts to a
\* year in [2001, current-year + 1] and the column converts without a range
\* error; the whole column is converted with that unit; a column of
\* millisecond values of the window is converted as milliseconds, and its
\* first value is in the window under no other unit; when no unit qualifies
\* the call raises ValueError.
C26_FirstUnitPlausibleForSample ==
    tp.pc = "returned" =>
        LET ok == {n \in DOMAIN Units : SamplePlausible(tp.series, Units[n], tp.now_year)}
        IN  /\ IF ok = {}
               THEN tp.result = [unit |-> "none", raised |-> "ValueError", values |-> <<>>]
               ELSE LET unit == Units[CHOOSE n \in ok : \A m \in ok : n <= m]
                    IN  /\ tp.result.unit = unit
                        /\ tp.result.raised = "none"
                        /\ tp.result.values =
                              [k \in DOMAIN tp.series |-> to_datetime(tp.series[k], unit)]
            /\ (ColumnInUnit(tp.series, 1) /\ ColumnPlausible(tp.series, "ms", tp.now_year))
                  => /\ tp.result.unit = "ms"
                     /\ ~InWindow(to_datetime(tp.series[1], "us"), tp.now_year)
                     /\ ~InWindow(to_datetime(tp.series[1], "ns"), tp.now_year)

C26_Witness ==
    /\ tp.pc = "returned"
    /\ ColumnInUnit(tp.series, 2)
    /\ tp.series[1].y = 55
    /\ tp.result.unit = "us"
    /\ to_datetime(tp.series[1], "ms") = OutOfBounds

(***************************************************************************)
(* Command-line specification: run_sync of cli.py, with the symbols given  *)
(* on the command line or listed from the archive, with and without        *)
(* --dry-run.                                                              *)
(***************************************************************************)
CliSymbol == "BTCUSDT"

\* one local day superseded by a remote month, one remote day to fetch
CliCoverage == Cov({}, {"2024-01-05"}, {"2024-01"}, {"2024-02-11"})

\* the mirror before the command runs
CliStore ==
    {SavePath(cfg, storage_mode, CliSymbol, t \o ".parquet") :
        t \in CliCoverage.lM \cup CliCoverage.lD}

InitCli ==
    /\ cfg \in SyncConfigs
    /\ storage_mode \in Modes
    /\ remote = [s \in {CliSymbol} |-> Catalog(cfg, s, CliCoverage.rM, CliCoverage.rD)]
    /\ store = CliStore
    /\ symbols \in {<<>>, <<CliSymbol>>}
    /\ sync_pc = "idle"
    /\ wave_i = 0
    /\ task = <<>>
    /\ rc = [pc |-> "unused"]
    /\ ls = [pc |-> "none", symbols |-> <<>>, marker |-> "", requests |-> 0,
             pages |-> <<>>, failed |-> "none", result |-> <<>>, supplies |-> TRUE]
    /\ partial = {}
    /\ tp = [pc |-> "unused"]
    /\ \E dry_run \in BOOLEAN :
          cli = [pc |-> "start", dry_run |-> dry_run, dates |-> NoDates]

\* a command that goes on to the synchronisation whatever the flag
DryRun_ignored(c) == FALSE

\* if dry_run:
DryRun(c) == c.dry_run

\* run_sync once the symbol list is known: the dry-run branch up to the
\* first request of compute_dates_cover(symbols[0]), or the call of sync
CliProceed(syms) ==
    /\ symbols' = syms
    /\ wave_i' = 0
    /\ IF DryRun(cli)
       THEN /\ sync_pc' = sync_pc
            /\ IF Len(syms) > 0
               THEN /\ task' = <<StartedTask(syms[1])>>
                    /\ cli' = [cli EXCEPT !.pc = "analyse"]
               ELSE /\ task' = <<>>
                    /\ cli' = [cli EXCEPT !.pc = "returned"]
       ELSE /\ sync_pc' = "init"
            /\ task' = [k \in DOMAIN syms |-> IdleTask]
            /\ cli' = [cli EXCEPT !.pc = "sync"]

\* run_sync up to its first suspension
CliStart ==
    /\ cli.pc = "start"
    /\ IF Len(symbols) > 0
       THEN CliProceed(symbols) /\ ls' = ls
       ELSE /\ ls' = [ls EXCEPT !.pc = "request", !.requests = 1]
            /\ cli' = [cli EXCEPT !.pc = "symbols"]
            /\ UNCHANGED <<symbols, wave_i, sync_pc, task>>
    /\ UNCHANGED <<cfg, storage_mode, remote, store, rc, partial, tp>>

\* one response of `await syncer.list_remote_symbols()`
CliSymbolsResponse ==
    /\ cli.pc = "symbols"
    /\ ls.pc = "request"
    /\ ls.requests <= MaxRequests
    /\ \E outcome \in {"ok", "status", "transport"} :
          LET l2 == ListSymbolsStep(ls, outcome)
          IN  /\ ls' = l2
              /\ CASE l2.pc = "returned" -> CliProceed(l2.result)
                   [] l2.pc = "raised" ->
                        /\ cli' = [cli EXCEPT !.pc = "exit1"]
                        /\ UNCHANGED <<symbols, wave_i, sync_pc, task>>
                   [] OTHER -> UNCHANGED <<symbols, wave_i, sync_pc, task, cli>>
    /\ UNCHANGED <<cfg, storage_mode, remote, store, rc, partial, tp>>

\* one response of `await syncer.compute_dates_cover(symbols[0])`; its
\* result is logged and run_sync returns
CliAnalyseResponse ==
    /\ cli.pc = "analyse"
    /\ \E outcome \in {"ok", "status", "transport"} :
          \E t2 \in ListStep(task[1], symbols[1], outcome) :
              CASE t2.pc \in {"listM", "listD"} ->
                      /\ task' = <<t2>>
                      /\ cli' = cli
                [] t2.pc = "raised" ->
                      /\ task' = <<t2>>
                      /\ cli' = [cli EXCEPT !.pc = "exit1"]
                [] OTHER ->
                      /\ task' = <<[IdleTask EXCEPT !.pc = "returned"]>>
                      /\ cli' = [cli EXCEPT !.pc = "returned", !.dates = t2.dates]
    /\ UNCHANGED <<cfg, storage_mode, remote, store, symbols, sync_pc, wave_i, rc, ls, partial, tp>>

\* `await syncer.sync(symbols)` returned or raised: sys.exit(1) on an exception
CliSyncOver ==
    /\ cli.pc = "sync"
    /\ sync_pc \in {"done", "raised"}
    /\ cli' = [cli EXCEPT !.pc = IF sync_pc = "done" THEN "returned" ELSE "exit1"]
    /\ UNCHANGED <<cfg, storage_mode, remote, store, symbols, sync_pc, wave_i, task, rc, ls, partial, tp>>

NextCli ==
    \/ CliStart
    \/ CliSymbolsResponse
    \/ CliAnalyseResponse
    \/ CliSyncOver
    \/ cli.pc = "sync" /\ SyncCall
    \/ cli.pc = "sync" /\ JoinWave
    \/ cli.pc = "sync" /\ SyncRaise
    \/ cli.pc = "sync" /\ \E i \in Tasks : ListResponse(i)
    \/ cli.pc = "sync" /\ \E i \in Tasks : BatchDeleteS3(i)
    \/ cli.pc = "sync" /\ \E i \in Tasks : \E d \in DOMAIN task[i].dels : StartDelete(i, d)
    \/ cli.pc = "sync" /\ \E i \in Tasks : \E d \in DOMAIN task[i].dels : UnlinkDone(i, d)
    \/ cli.pc = "sync" /\ \E i \in Tasks : JoinDeletes(i)
    \/ cli.pc = "sync" /\ \E i \in Tasks : \E k \in DOMAIN task[i].items : StartItem(i, k)
    \/ cli.pc = "sync" /\ \E i \in Tasks : \E k \in DOMAIN task[i].items : AttemptDone(i, k)
    \/ cli.pc = "sync" /\ \E i \in Tasks : \E k \in DOMAIN task[i].items : WakeUp(i, k)
    \/ cli.pc = "sync" /\ \E i \in Tasks : JoinBatch(i)

SpecCli == InitCli /\ [][NextCli]_vars

\* C27: with --dry-run the command only lists the symbols and computes the
\* coverage of the first symbol: sync is never invoked, no transfer and no
\* deletion is created, the mirror stays as it was before the command, and
\* no step of the command changes it.
C27_DryRunChangesNothing ==
    /\ [](cli.dry_run =>
            /\ sync_pc = "idle"
            /\ cli.pc # "sync"
            /\ store = CliStore
            /\ partial = {}
            /\ Len(task) <= 1
            /\ \A i \in Tasks :
                  /\ task[i].items = <<>>
                  /\ task[i].to_fetch = <<>>
                  /\ task[i].dels = <<>>
                  /\ task[i].deleted = {}
                  /\ task[i].pc \in {"listM", "listD", "raised", "returned"})
    /\ [][cli.dry_run => store' = store]_vars

C27_Witness ==
    /\ cli.dry_run
    /\ cli.pc = "returned"
    /\ symbols = <<CliSymbol>>
    /\ ls.pc = "returned"
    /\ cli.dates.M_DL # {}
    /\ cli.dates.D_DL # {}
    /\ cli.dates.D_RM # {}
    /\ store = CliStore



(***************************************************************************)
(* Coverage specification: list_local_dates of one symbol over a mirror    *)
(* that holds artifacts of that symbol and of a symbol whose name starts   *)
(* with the same characters.                                               *)
(***************************************************************************)
CovSymbols == {"BTCUSDT", "BTCUSDT_210326"}

CovTokens == {"2024-01", "2024-02-10"}

InitCoverage ==
    /\ cfg \in Configs
    /\ storage_mode \in Modes
    /\ symbols = <<>>
    /\ sync_pc = "init"
    /\ wave_i = 0
    /\ task = <<>>
    /\ remote = <<>>
    /\ ls = [pc |-> "unused"]
    /\ partial = {}
    /\ tp = [pc |-> "unused"]
    /\ cli = [pc |-> "unused"]
    /\ store \in SUBSET {SavePath(cfg, storage_mode, s, t \o ".parquet") :
                            s \in CovSymbols, t \in CovTokens}
    /\ \E s \in CovSymbols : rc = [pc |-> "cov_input", symbol |-> s, existing |-> {}]

\* local_dates = self.list_local_dates(symbol)
ListLocalDates ==
    /\ rc.pc = "cov_input"
    /\ rc' = [rc EXCEPT !.pc = "cov_listed",
                        !.existing = list_local_dates(cfg, storage_mode, store, rc.symbol)]
    /\ UNCHANGED <<cfg, storage_mode, remote, store, symbols, sync_pc, wave_i, task, ls, partial, tp, cli>>

NextCoverage == ListLocalDates

SpecCoverage == InitCoverage /\ [][NextCoverage]_vars

\* C31: the local coverage list_local_dates computes for a symbol is exactly
\* the set of DateTokens of the artifacts stored under that symbol's own
\* storage location, on both backends; an artifact of another symbol whose
\* name starts with the symbol's name is not counted.
C31_OwnCoverageOnly ==
    rc.pc = "cov_listed" =>
        rc.existing = {t \in CovTokens :
                          SavePath(cfg, storage_mode, rc.symbol, t \o ".parquet") \in store}


(***************************************************************************)
(* Repeated-symbol specification: sync(symbols) for a list run_sync hands  *)
(* over after upper-casing, which may name a symbol twice.                 *)
(***************************************************************************)
DupLists == {<<"BTCUSDT", "BTCUSDT">>, <<"BTCUSDT", "ETHUSDT">>}

DupCoverage == Cov({}, {"2024-01-05"}, {"2024-01"}, {})

InitDup ==
    /\ cfg \in SyncConfigs
    /\ storage_mode \in Modes
    /\ symbols \in DupLists
    /\ sync_pc = "init"
    /\ wave_i = 0
    /\ task = [i \in DOMAIN symbols |-> IdleTask]
    /\ rc = [pc |-> "unused"]
    /\ ls = [pc |-> "unused"]
    /\ partial = {}
    /\ tp = [pc |-> "unused"]
    /\ cli = [pc |-> "unused"]
    /\ store = {SavePath(cfg, storage_mode, s, t \o ".parquet") :
                   s \in Range(symbols), t \in DupCoverage.lM \cup DupCoverage.lD}
    /\ remote = [s \in Range(symbols) |-> Catalog(cfg, s, DupCoverage.rM, DupCoverage.rD)]

SpecDup == InitDup /\ [][Next]_vars

\* the destinations a symbol-sync has an operation in flight on: a transfer
\* between its first request and its final outcome, a file handed to the
\* executor for unlink
InFlight(i) ==
    {task[i].items[k].file_path :
        k \in {n \in DOMAIN task[i].items : task[i].items[n].st \in {"get", "sleep"}}}
    \cup {DeletePath(symbols[i], d) :
             d \in {e \in DOMAIN task[i].dels : task[i].dels[e] = "unlink"}}

\* C32: for any symbol list, one that names a symbol twice included, no two
\* symbol-sync tasks have a write or a deletion of the same destination in
\* flight at the same time.
C32_NoSharedDestination ==
    \A i, j \in Tasks : i # j => InFlight(i) \cap InFlight(j) = {}


(***************************************************************************)
(* Naming specification: a DateToken is turned into an archive key by      *)
(* build_download_path and parsed back from it by compute_dates_cover and  *)
(* download_and_store.                                                     *)
(***************************************************************************)
NamingSymbols == {"BTCUSDT", "BTC-USD"}

InitNaming ==
    /\ cfg \in Configs
    /\ storage_mode \in Modes
    /\ symbols = <<>>
    /\ sync_pc = "init"
    /\ wave_i = 0
    /\ task = <<>>
    /\ remote = <<>>
    /\ store = {}
    /\ ls = [pc |-> "unused"]
    /\ partial = {}
    /\ tp = [pc |-> "unused"]
    /\ cli = [pc |-> "unused"]
    /\ \E s \in NamingSymbols, t \in Months \cup Days :
          rc = [pc |-> "token", symbol |-> s, token |-> t,
                file_key |-> "", parsed |-> "", file_path |-> ""]

\* to_fetch.append(self.path_builder.build_download_path(frequency, symbol, *date_parts))
BuildKey ==
    /\ rc.pc = "token"
    /\ rc' = [rc EXCEPT
                !.pc = "key",
                !.file_key = build_download_path(cfg,
                                 IF Len(rc.token) = 7 THEN "monthly" ELSE "daily",
                                 rc.symbol, Split(rc.token, "-"))]
    /\ UNCHANGED <<cfg, storage_mode, remote, store, symbols, sync_pc, wave_i, task, ls, partial, tp, cli>>

\* the token and the destination parsed from the key
ParseKey ==
    /\ rc.pc = "key"
    /\ rc' = [rc EXCEPT !.pc = "parsed",
                        !.parsed = ParseToken(rc.file_key),
                        !.file_path = ItemPath(rc.symbol, rc.file_key)]
    /\ UNCHANGED <<cfg, storage_mode, remote, store, symbols, sync_pc, wave_i, task, ls, partial, tp, cli>>

NextNaming == BuildKey \/ ParseKey

SpecNaming == InitNaming /\ [][NextNaming]_vars

\* C33: for every symbol, one that contains "-" included, and every
\* DateToken T, the token parsed back from the archive key
\* build_download_path builds for T is T, and the artifact is stored under
\* the file name T.parquet.
C33_TokenRoundTrip ==
    rc.pc = "parsed" =>
        /\ rc.parsed = rc.token
        /\ rc.file_path = SavePath(cfg, storage_mode, rc.symbol, rc.token \o ".parquet")

====
